---- MODULE Spec2Model ----
(***************************************************************************)
(* Model of the response-to-file-changes pipeline of the code generator    *)
(* (lib/ai/code-parser), of the two AI providers that call it and of the   *)
(* chat route that persists its result.                                    *)
(*                                                                         *)
(* A string is a sequence of one-character strings; a position is a        *)
(* 1-based index (the source's 0-based index plus one).  Every regular     *)
(* expression of the source is an operator that matches the way the        *)
(* JavaScript backtracking matcher does.                                   *)
(***************************************************************************)
EXTENDS Integers, Sequences, FiniteSets, TLC, Bags

(***************************************************************************)
(* Characters and character classes                                        *)
(***************************************************************************)
NL == "\n"
\* the backquote character (written as a name: the character itself cannot
\* stand in a TLA+ string)
BT == "BQ"

LowerSeq == <<"a","b","c","d","e","f","g","h","i","j","k","l","m",
              "n","o","p","q","r","s","t","u","v","w","x","y","z">>
UpperSeq == <<"A","B","C","D","E","F","G","H","I","J","K","L","M",
              "N","O","P","Q","R","S","T","U","V","W","X","Y","Z">>
LowerChars == {LowerSeq[i] : i \in 1..26}
UpperChars == {UpperSeq[i] : i \in 1..26}
DigitChars == {"0","1","2","3","4","5","6","7","8","9"}
AlnumChars == LowerChars \cup UpperChars \cup DigitChars
\* \w of a JavaScript regular expression
WordChars == AlnumChars \cup {"_"}
\* \s of a regular expression and the characters String.prototype.trim strips
WhiteSpace == {" ", "\t", "\n", "\r", "\f"}

\* Canonicalisation of a character under the i flag
toLowerChar(c) ==
    IF c \in UpperChars THEN LowerSeq[CHOOSE i \in 1..26 : UpperSeq[i] = c] ELSE c

Min(S) == CHOOSE x \in S : \A y \in S : x <= y
Max(S) == CHOOSE x \in S : \A y \in S : x >= y

(***************************************************************************)
(* String.prototype helpers                                                *)
(***************************************************************************)
\* s.startsWith(lit, i - 1)
startsWithAt(s, i, lit) ==
    /\ i >= 1
    /\ i + Len(lit) - 1 <= Len(s)
    /\ \A k \in 1..Len(lit) : s[i + k - 1] = lit[k]

\* the same, comparing under the i flag
startsWithAtCI(s, i, lit) ==
    /\ i >= 1
    /\ i + Len(lit) - 1 <= Len(s)
    /\ \A k \in 1..Len(lit) : toLowerChar(s[i + k - 1]) = toLowerChar(lit[k])

startsWith(s, lit) == startsWithAt(s, 1, lit)

\* s.indexOf(lit, from - 1) + 1 : 0 when there is no occurrence
indexOf(s, lit, from) ==
    LET hits == {i \in from..(Len(s) - Len(lit) + 1) : startsWithAt(s, i, lit)}
    IN  IF hits = {} THEN 0 ELSE Min(hits)

includes(s, lit) == indexOf(s, lit, 1) # 0

\* s.substring(i - 1): the suffix from position i
substring(s, i) == IF i > Len(s) THEN <<>> ELSE SubSeq(s, i, Len(s))

trim(s) ==
    LET keep == {i \in 1..Len(s) : s[i] \notin WhiteSpace}
    IN  IF keep = {} THEN <<>> ELSE SubSeq(s, Min(keep), Max(keep))

\* length of the longest run of characters of class C that starts at position i
runLen(s, i, C) ==
    LET stop == {k \in i..Len(s) : s[k] \notin C}
    IN  IF i > Len(s) THEN 0
        ELSE IF stop = {} THEN Len(s) - i + 1 ELSE Min(stop) - i

\* length of the longest run of characters outside class C that starts at i
runLenNot(s, i, C) ==
    LET stop == {k \in i..Len(s) : s[k] \in C}
    IN  IF i > Len(s) THEN 0
        ELSE IF stop = {} THEN Len(s) - i + 1 ELSE Min(stop) - i

\* s.split(NL)
RECURSIVE split(_)
split(s) ==
    LET n == indexOf(s, <<NL>>, 1)
    IN  IF n = 0 THEN <<s>>
        ELSE <<SubSeq(s, 1, n - 1)>> \o split(substring(s, n + 1))

\* lines.join(sep)
RECURSIVE join(_, _)
join(lines, sep) ==
    IF Len(lines) = 0 THEN <<>>
    ELSE IF Len(lines) = 1 THEN lines[1]
    ELSE lines[1] \o sep \o join(Tail(lines), sep)

Fence == <<BT, BT, BT>>
FilepathTag == <<"f","i","l","e","p","a","t","h",":">>

(***************************************************************************)
(* isValidFilePath                                                         *)
(***************************************************************************)
\* the names of /^(\.gitignore|\.env|\.env\.local|Dockerfile|Makefile|README)$/i
ConfigFileNames ==
    { <<".","g","i","t","i","g","n","o","r","e">>,
      <<".","e","n","v">>,
      <<".","e","n","v",".","l","o","c","a","l">>,
      <<"D","o","c","k","e","r","f","i","l","e">>,
      <<"M","a","k","e","f","i","l","e">>,
      <<"R","E","A","D","M","E">> }

\* /\.[a-z0-9]+$/i.test(path): the matcher tries every start position for a dot
\* whose alphanumeric run reaches the end of the string
hasExtension(path) ==
    \E i \in 1..Len(path) :
        /\ path[i] = "."
        /\ runLen(path, i + 1, AlnumChars) >= 1
        /\ i + runLen(path, i + 1, AlnumChars) = Len(path)

isConfigFile(path) ==
    \E name \in ConfigFileNames :
        Len(name) = Len(path) /\ startsWithAtCI(path, 1, name)

\* /^[A-Z]:/i.test(path)
hasDrivePrefix(path) ==
    Len(path) >= 2 /\ path[1] \in (UpperChars \cup LowerChars) /\ path[2] = ":"

\* /^[\w\-./]+$/.test(path)
onlyAllowedChars(path) ==
    Len(path) >= 1 /\ runLen(path, 1, WordChars \cup {"-", ".", "/"}) = Len(path)

MaxPathLength == 200

\* isValidFilePath without the directory traversal guard
isValidFilePath_NoTraversalGuard(path) ==
    IF ~hasExtension(path) /\ ~isConfigFile(path) THEN FALSE
    ELSE IF startsWith(path, <<"/">>) \/ hasDrivePrefix(path) THEN FALSE
    ELSE IF Len(path) > MaxPathLength THEN FALSE
    ELSE IF ~onlyAllowedChars(path) THEN FALSE
    ELSE TRUE

\* isValidFilePath rejecting a path of exactly the longest length
isValidFilePath_LengthOffByOne(path) ==
    IF ~hasExtension(path) /\ ~isConfigFile(path) THEN FALSE
    ELSE IF includes(path, <<".", ".">>) THEN FALSE
    ELSE IF startsWith(path, <<"/">>) \/ hasDrivePrefix(path) THEN FALSE
    ELSE IF Len(path) >= MaxPathLength THEN FALSE
    ELSE IF ~onlyAllowedChars(path) THEN FALSE
    ELSE TRUE

isValidFilePath(path) ==
    IF ~hasExtension(path) /\ ~isConfigFile(path) THEN FALSE
    ELSE IF includes(path, <<".", ".">>) THEN FALSE
    ELSE IF startsWith(path, <<"/">>) \/ hasDrivePrefix(path) THEN FALSE
    ELSE IF Len(path) > MaxPathLength THEN FALSE
    ELSE IF ~onlyAllowedChars(path) THEN FALSE
    ELSE TRUE

(***************************************************************************)
(* parseFileChanges                                                        *)
(***************************************************************************)
NoMatch == [found |-> FALSE]

\* One attempt of codeBlockRegex with the fence at position i and the header
\* starting at position h: the header class runs greedily to the first newline or
\* backquote and must be followed by a newline, ([\s\S]*?) runs lazily to the
\* first closing fence.
codeBlockAttempt(s, i, h) ==
    LET n == runLenNot(s, h, {NL, BT})
        e == h + n
        close == indexOf(s, Fence, e + 1)
    IN  IF n >= 1 /\ e <= Len(s) /\ s[e] = NL /\ close # 0
        THEN [found |-> TRUE, index |-> i,
              g1 |-> SubSeq(s, h, e - 1),
              g2 |-> SubSeq(s, e + 1, close - 1),
              lastIndex |-> close + 3]
        ELSE NoMatch

\* codeBlockRegex anchored at position i: the optional (?:filepath:) is tried
\* taken first and skipped on backtracking
codeBlockAt(s, i) ==
    IF ~startsWithAt(s, i, Fence) THEN NoMatch
    ELSE LET tagged == IF startsWithAt(s, i + 3, FilepathTag)
                       THEN codeBlockAttempt(s, i, i + 3 + Len(FilepathTag))
                       ELSE NoMatch
         IN  IF tagged.found THEN tagged ELSE codeBlockAttempt(s, i, i + 3)

\* exec of the expression without the g flag: every search starts at the
\* beginning of the text and lastIndex stays 0
codeBlockRegexExec_NoGlobalFlag(s, from) ==
    LET starts == {i \in 1..Len(s) : codeBlockAt(s, i).found}
    IN  IF starts = {} THEN NoMatch
        ELSE [codeBlockAt(s, Min(starts)) EXCEPT !.lastIndex = 1]

\* codeBlockRegex.exec(response) with lastIndex = from - 1: the leftmost
\* position at or after from where the expression matches
codeBlockRegexExec(s, from) ==
    LET starts == {i \in from..Len(s) : codeBlockAt(s, i).found}
    IN  IF starts = {} THEN NoMatch ELSE codeBlockAt(s, Min(starts))

\* the language names of the clean-up replace
LanguageNames ==
    { <<"t","y","p","e","s","c","r","i","p","t">>,
      <<"j","a","v","a","s","c","r","i","p","t">>,
      <<"t","s","x">>, <<"j","s","x">>, <<"t","s">>, <<"j","s">>,
      <<"j","s","o","n">>, <<"h","t","m","l">>, <<"c","s","s">>,
      <<"p","y","t","h","o","n">>, <<"g","o">>, <<"r","u","s","t">> }

\* filePath.replace(/^(typescript|...|rust)$/i, '')
stripLanguageName(filePath) ==
    IF \E name \in LanguageNames :
           Len(name) = Len(filePath) /\ startsWithAtCI(filePath, 1, name)
    THEN <<>> ELSE filePath

FileChange(path, action, content) ==
    [path |-> path, action |-> action, content |-> content]

\* the body of the first loop without the test for a dot or a slash
firstLoopBody_NoDotSlashCheck(files, m) ==
    LET pathPart == trim(m.g1)
        content == m.g2
        tagged == startsWith(pathPart, FilepathTag)
        filePath0 == IF tagged
                     THEN trim(substring(pathPart, Len(FilepathTag) + 1))
                     ELSE pathPart
        filePath == trim(stripLanguageName(filePath0))
    IN  IF pathPart = <<>> \/ (includes(pathPart, <<" ">>) /\ ~tagged) THEN files
        ELSE IF filePath = <<>> THEN files
        ELSE IF isValidFilePath(filePath)
        THEN Append(files, FileChange(filePath, "create", trim(content)))
        ELSE files

\* the body of the first loop keeping the content as matched, untrimmed
firstLoopBody_NoTrim(files, m) ==
    LET pathPart == trim(m.g1)
        tagged == startsWith(pathPart, FilepathTag)
        filePath0 == IF tagged
                     THEN trim(substring(pathPart, Len(FilepathTag) + 1))
                     ELSE pathPart
        filePath == trim(stripLanguageName(filePath0))
    IN  IF pathPart = <<>> \/ (includes(pathPart, <<" ">>) /\ ~tagged) THEN files
        ELSE IF filePath = <<>>
                \/ (~includes(filePath, <<".">>) /\ ~includes(filePath, <<"/">>))
        THEN files
        ELSE IF isValidFilePath(filePath)
        THEN Append(files, FileChange(filePath, "create", m.g2))
        ELSE files

\* the body of the first while loop for one match: the files after it
firstLoopBody(files, m) ==
    LET pathPart == trim(m.g1)
        content == m.g2
        tagged == startsWith(pathPart, FilepathTag)
        filePath0 == IF tagged
                     THEN trim(substring(pathPart, Len(FilepathTag) + 1))
                     ELSE pathPart
        filePath == trim(stripLanguageName(filePath0))
    IN  IF pathPart = <<>> \/ (includes(pathPart, <<" ">>) /\ ~tagged) THEN files
        ELSE IF filePath = <<>>
                \/ (~includes(filePath, <<".">>) /\ ~includes(filePath, <<"/">>))
        THEN files
        ELSE IF isValidFilePath(filePath)
        THEN Append(files, FileChange(filePath, "create", trim(content)))
        ELSE files

RECURSIVE firstLoop(_, _, _)
firstLoop(s, from, files) ==
    LET m == codeBlockRegexExec(s, from)
    IN  IF ~m.found THEN files
        ELSE firstLoop(s, m.lastIndex, firstLoopBody(files, m))

\* One attempt of simpleBlockRegex with the fence at position i and group 3
\* starting at position st: [^\n]+ runs to the end of the line and backs off
\* to a dot that is followed by lower-case letters up to the newline (only the
\* last dot of the line can be one), then the body runs lazily to the first
\* closing fence.
simpleBlockAttempt(s, i, st) ==
    LET e == st + runLenNot(s, st, {NL})
        dots == {d \in (st + 1)..(e - 1) : s[d] = "."}
        d == IF dots = {} THEN 0 ELSE Max(dots)
        close == indexOf(s, Fence, e + 1)
    IN  IF /\ d # 0
           /\ e <= Len(s)
           /\ runLen(s, d + 1, LowerChars) >= 1
           /\ d + 1 + runLen(s, d + 1, LowerChars) = e
           /\ close # 0
        THEN [found |-> TRUE, index |-> i,
              g3 |-> SubSeq(s, st, e - 1),
              g4 |-> SubSeq(s, e + 1, close - 1),
              lastIndex |-> close + 3]
        ELSE NoMatch

\* (\/\/\s*)? taken, with \s* giving back from k characters down to none
RECURSIVE simpleBlockComment(_, _, _, _)
simpleBlockComment(s, i, q, k) ==
    LET a == simpleBlockAttempt(s, i, q + k)
    IN  IF a.found THEN a
        ELSE IF k = 0 THEN NoMatch
        ELSE simpleBlockComment(s, i, q, k - 1)

\* simpleBlockRegex anchored at position i
simpleBlockAt(s, i) ==
    IF ~startsWithAt(s, i, Fence) THEN NoMatch
    ELSE LET w == runLen(s, i + 3, WordChars)
             p == i + 3 + w + 1
             commented ==
                 IF startsWithAt(s, p, <<"/", "/">>)
                 THEN simpleBlockComment(s, i, p + 2, runLen(s, p + 2, WhiteSpace))
                 ELSE NoMatch
         IN  IF w = 0 \/ ~startsWithAt(s, i + 3 + w, <<NL>>) THEN NoMatch
             ELSE IF commented.found THEN commented
             ELSE simpleBlockAttempt(s, i, p)

\* simpleBlockRegex.exec(response) with lastIndex = from - 1
simpleBlockRegexExec(s, from) ==
    LET starts == {i \in from..Len(s) : simpleBlockAt(s, i).found}
    IN  IF starts = {} THEN NoMatch ELSE simpleBlockAt(s, Min(starts))

\* the body of the second loop without the check for a path already there
secondLoopBody_NoDedup(files, m) ==
    IF isValidFilePath(trim(m.g3))
    THEN Append(files, FileChange(trim(m.g3), "create", trim(m.g4)))
    ELSE files

\* the body of the second while loop for one match: the files after it
secondLoopBody(files, m) ==
    LET possiblePath == trim(m.g3)
        content == m.g4
    IN  IF \E k \in 1..Len(files) : files[k].path = possiblePath THEN files
        ELSE IF isValidFilePath(possiblePath)
        THEN Append(files, FileChange(possiblePath, "create", trim(content)))
        ELSE files

RECURSIVE secondLoop(_, _, _)
secondLoop(s, from, files) ==
    LET m == simpleBlockRegexExec(s, from)
    IN  IF ~m.found THEN files
        ELSE secondLoop(s, m.lastIndex, secondLoopBody(files, m))

parseFileChanges(response) ==
    secondLoop(response, 1, firstLoop(response, 1, <<>>))

(***************************************************************************)
(* extractExplanation                                                      *)
(***************************************************************************)
\* response.replace(fence [\s\S]*? fence, empty) from position from on: an opening
\* fence with no fence after it matches nowhere, and then neither does any
\* later position
RECURSIVE removeCodeBlocks(_, _)
removeCodeBlocks(s, from) ==
    LET open == indexOf(s, Fence, from)
        close == IF open = 0 THEN 0 ELSE indexOf(s, Fence, open + 3)
    IN  IF close = 0 THEN substring(s, from)
        ELSE SubSeq(s, from, open - 1) \o removeCodeBlocks(s, close + 3)

FallbackExplanation ==
    <<"C","h","a","n","g","e","s"," ","a","p","p","l","i","e","d"," ",
      "s","u","c","c","e","s","s","f","u","l","l","y",".">>

\* extractExplanation without the fallback text
extractExplanation_NoFallback(response) ==
    trim(join(SelectSeq(split(removeCodeBlocks(response, 1)),
                        LAMBDA line : trim(line) # <<>>), <<NL>>))

\* extractExplanation with a greedy match: from the first fence to the last
extractExplanation_Greedy(response) ==
    LET open == indexOf(response, Fence, 1)
        closes == {i \in (open + 3)..Len(response) : startsWithAt(response, i, Fence)}
        text0 == IF open = 0 \/ closes = {} THEN response
                 ELSE SubSeq(response, 1, open - 1)
                          \o substring(response, Max(closes) + 3)
        text == trim(join(SelectSeq(split(text0), LAMBDA line : trim(line) # <<>>),
                          <<NL>>))
    IN  IF text # <<>> THEN text ELSE FallbackExplanation

extractExplanation(response) ==
    LET text0 == removeCodeBlocks(response, 1)
        text == trim(join(SelectSeq(split(text0), LAMBDA line : trim(line) # <<>>),
                          <<NL>>))
    IN  IF text # <<>> THEN text ELSE FallbackExplanation

(***************************************************************************)
(* determineFileActions                                                    *)
(***************************************************************************)
\* existingPaths.includes(path)
arrayIncludes(existingPaths, path) ==
    \E k \in 1..Len(existingPaths) : existingPaths[k] = path

\* a classifier that compares paths without regard to case
determineFileActions_IgnoreCase(changes, existingPaths) ==
    [k \in 1..Len(changes) |->
        [changes[k] EXCEPT
            !.action =
                IF \E j \in 1..Len(existingPaths) :
                       /\ Len(existingPaths[j]) = Len(changes[k].path)
                       /\ startsWithAtCI(existingPaths[j], 1, changes[k].path)
                THEN "update" ELSE "create"]]

\* a classifier that builds its result from the path and the action alone
determineFileActions_DropsContent(changes, existingPaths) ==
    [k \in 1..Len(changes) |->
        FileChange(changes[k].path,
                   IF arrayIncludes(existingPaths, changes[k].path)
                   THEN "update" ELSE "create",
                   <<>>)]

\* a classifier that marks a change without content as a deletion
determineFileActions_DeletesEmpty(changes, existingPaths) ==
    [k \in 1..Len(changes) |->
        [changes[k] EXCEPT
            !.action = IF changes[k].content = <<>> THEN "delete"
                       ELSE IF arrayIncludes(existingPaths, changes[k].path)
                       THEN "update" ELSE "create"]]

\* changes.map(change => ({...change, action: ...}))
determineFileActions(changes, existingPaths) ==
    [k \in 1..Len(changes) |->
        [changes[k] EXCEPT
            !.action = IF arrayIncludes(existingPaths, changes[k].path)
                       THEN "update" ELSE "create"]]

(***************************************************************************)
(* scanForSecurityIssues                                                   *)
(***************************************************************************)
Quotes == {"'", "\""}
MinSecretLength == 10
AwsKeyLength == 16
GithubTokenLength == 36

\* \s*[:=]\s*['"][^'"]{min,}['"] anchored at position p: every greedy run is
\* delimited by a character outside its class, so no backtracking succeeds
\* where the greedy attempt fails
assignedLiteralAt(s, p, min) ==
    LET a == p + runLen(s, p, WhiteSpace)
        b == a + 1 + runLen(s, a + 1, WhiteSpace)
        n == runLenNot(s, b + 1, Quotes)
    IN  /\ a <= Len(s) /\ s[a] \in {":", "="}
        /\ b <= Len(s) /\ s[b] \in Quotes
        /\ n >= min
        /\ b + 1 + n <= Len(s)

\* /api[_-]?key\s*[:=]\s*['"][^'"]{10,}['"]/gi
apiKeyAt(s, i) ==
        /\ startsWithAtCI(s, i, <<"a","p","i">>)
        /\ LET k == IF i + 3 <= Len(s) /\ s[i + 3] \in {"_", "-"}
                    THEN i + 4 ELSE i + 3
           IN  /\ startsWithAtCI(s, k, <<"k","e","y">>)
               /\ assignedLiteralAt(s, k + 3, MinSecretLength)

apiKeyPattern(s) == \E i \in 1..Len(s) : apiKeyAt(s, i)

\* /secret\s*[:=]\s*['"][^'"]{10,}['"]/gi
secretAt(s, i) ==
        /\ startsWithAtCI(s, i, <<"s","e","c","r","e","t">>)
        /\ assignedLiteralAt(s, i + 6, MinSecretLength)

secretPattern(s) == \E i \in 1..Len(s) : secretAt(s, i)

\* /password\s*[:=]\s*['"][^'"]+['"]/gi
passwordAt(s, i) ==
        /\ startsWithAtCI(s, i, <<"p","a","s","s","w","o","r","d">>)
        /\ assignedLiteralAt(s, i + 8, 1)

passwordPattern(s) == \E i \in 1..Len(s) : passwordAt(s, i)

\* the Stripe expression with the i flag
stripeKeyAt_IgnoreCase(s, i) ==
        /\ startsWithAtCI(s, i, <<"s","k">>)
        /\ i + 2 <= Len(s) /\ s[i + 2] \in {"-", "_"}
        /\ \/ startsWithAtCI(s, i + 3, <<"l","i","v","e">>)
           \/ startsWithAtCI(s, i + 3, <<"t","e","s","t">>)
        /\ i + 7 <= Len(s) /\ s[i + 7] \in {"-", "_"}
        /\ runLen(s, i + 8, AlnumChars) >= 1

\* /sk[-_](live|test)[-_][a-zA-Z0-9]+/g
stripeKeyAt(s, i) ==
        /\ startsWithAt(s, i, <<"s","k">>)
        /\ i + 2 <= Len(s) /\ s[i + 2] \in {"-", "_"}
        /\ \/ startsWithAt(s, i + 3, <<"l","i","v","e">>)
           \/ startsWithAt(s, i + 3, <<"t","e","s","t">>)
        /\ i + 7 <= Len(s) /\ s[i + 7] \in {"-", "_"}
        /\ runLen(s, i + 8, AlnumChars) >= 1

stripeKeyPattern(s) == \E i \in 1..Len(s) : stripeKeyAt(s, i)

\* /AKIA[0-9A-Z]{16}/g
awsKeyAt(s, i) ==
        /\ startsWithAt(s, i, <<"A","K","I","A">>)
        /\ runLen(s, i + 4, DigitChars \cup UpperChars) >= AwsKeyLength

awsKeyPattern(s) == \E i \in 1..Len(s) : awsKeyAt(s, i)

\* /ghp_[a-zA-Z0-9]{36}/g
githubTokenAt(s, i) ==
        /\ startsWithAt(s, i, <<"g","h","p","_">>)
        /\ runLen(s, i + 4, AlnumChars) >= GithubTokenLength

githubTokenPattern(s) == \E i \in 1..Len(s) : githubTokenAt(s, i)

\* /Bearer\s+[a-zA-Z0-9\-._~+/]+={0,2}/g
\* (the trailing ={0,2} may match nothing, so it never decides a test)
bearerAt(s, i) ==
        /\ startsWithAt(s, i, <<"B","e","a","r","e","r">>)
        /\ LET w == runLen(s, i + 6, WhiteSpace)
           IN  /\ w >= 1
               /\ runLen(s, i + 6 + w,
                         AlnumChars \cup {"-", ".", "_", "~", "+", "/"}) >= 1

bearerPattern(s) == \E i \in 1..Len(s) : bearerAt(s, i)

\* the names of the patterns array, in its order
PatternNames ==
    << <<"A","P","I"," ","k","e","y">>,
       <<"S","e","c","r","e","t">>,
       <<"P","a","s","s","w","o","r","d">>,
       <<"S","t","r","i","p","e"," ","k","e","y">>,
       <<"A","W","S"," ","a","c","c","e","s","s"," ","k","e","y">>,
       <<"G","i","t","H","u","b"," ","t","o","k","e","n">>,
       <<"B","e","a","r","e","r"," ","t","o","k","e","n">> >>

\* patterns[k].pattern.test(code), on a regular expression created by the call
patternTest(k, code) ==
    CASE k = 1 -> apiKeyPattern(code)
      [] k = 2 -> secretPattern(code)
      [] k = 3 -> passwordPattern(code)
      [] k = 4 -> stripeKeyPattern(code)
      [] k = 5 -> awsKeyPattern(code)
      [] k = 6 -> githubTokenPattern(code)
      [] k = 7 -> bearerPattern(code)

\* the template literal: Potential ${name} detected in generated code
issueOf(name) ==
    <<"P","o","t","e","n","t","i","a","l"," ">> \o name
        \o <<" ","d","e","t","e","c","t","e","d"," ","i","n"," ","g","e","n","e","r","a","t","e","d"," ","c","o","d","e">>

\* patterns[k].pattern matching at position i of code
patternAt(k, code, i) ==
    CASE k = 1 -> apiKeyAt(code, i)
      [] k = 2 -> secretAt(code, i)
      [] k = 3 -> passwordAt(code, i)
      [] k = 4 -> stripeKeyAt(code, i)
      [] k = 5 -> awsKeyAt(code, i)
      [] k = 6 -> githubTokenAt(code, i)
      [] k = 7 -> bearerAt(code, i)

RECURSIVE scanLoop(_, _, _)
scanLoop(code, k, issues) ==
    IF k > Len(PatternNames) THEN issues
    ELSE scanLoop(code, k + 1,
                  IF patternTest(k, code)
                  THEN Append(issues, issueOf(PatternNames[k])) ELSE issues)

\* a scanner that pushes one finding for every match of a pattern
RECURSIVE scanLoop_PerMatch(_, _, _)
scanLoop_PerMatch(code, k, issues) ==
    IF k > Len(PatternNames) THEN issues
    ELSE LET n == Cardinality({i \in 1..Len(code) : patternAt(k, code, i)})
         IN  scanLoop_PerMatch(code, k + 1,
                 issues \o [j \in 1..n |-> issueOf(PatternNames[k])])

scanForSecurityIssues_PerMatch(code) == scanLoop_PerMatch(code, 1, <<>>)

scanForSecurityIssues(code) == scanLoop(code, 1, <<>>)

(***************************************************************************)
(* The text an AI completion is made of.  A completion arrives as a        *)
(* sequence of text deltas; the deltas modelled are whole lines and blocks *)
(* so that a few of them make the shapes the parser distinguishes.         *)
(***************************************************************************)
\* a closed block tagged filepath:a.ts
TokBlockA ==
    <<BT,BT,BT,"f","i","l","e","p","a","t","h",":","a",".","t","s",NL,"x",NL,BT,BT,BT,NL>>
\* a closed block headed a.ts whose body assigns a password
TokBlockA2 ==
    <<BT,BT,BT,"a",".","t","s",NL,"p","a","s","s","w","o","r","d","=","'","p","'",NL,BT,BT,BT>>
\* a language-tagged block whose first line names a.ts
TokSimpleA ==
    <<BT,BT,BT,"t","s",NL,"/","/"," ","a",".","t","s",NL,"y",NL,BT,BT,BT,NL>>
\* a closed block whose path climbs out of the project
TokTraversal ==
    <<BT,BT,BT,"f","i","l","e","p","a","t","h",":",".",".","/","b",".","t","s",NL,"x",BT,BT,BT>>
\* an opening fence and header with no closing fence of its own
TokOpenB ==
    <<BT,BT,BT,"f","i","l","e","p","a","t","h",":","b",".","t","s",NL>>
\* a lone fence
TokFence ==
    <<BT,BT,BT>>
\* a line of prose
TokProse ==
    <<"D","o","n","e",".",NL>>
\* a blank line
TokBlank ==
    <<" ",NL>>
\* a language-tagged block with no path
TokLangOnly ==
    <<BT,BT,BT,"t","s",NL,"z",NL,BT,BT,BT>>
\* a closed block headed by an extensionless config name
TokDocker ==
    <<BT,BT,BT,"D","o","c","k","e","r","f","i","l","e",NL,"x",NL,BT,BT,BT>>

Tokens ==
    { TokBlockA,
      TokBlockA2,
      TokSimpleA,
      TokTraversal,
      TokOpenB,
      TokFence,
      TokProse,
      TokBlank,
      TokLangOnly,
      TokDocker }

\* the number of text deltas of one completion
MaxTokens == 3

PathA == <<"a",".","t","s">>
PathB == <<"b",".","t","s">>

(***************************************************************************)
(* The providers (ClaudeProvider and OpenAIProvider run the same steps on  *)
(* the response text)                                                      *)
(***************************************************************************)
WarningPrefix == <<NL, NL, "W","a","r","n","i","n","g",":"," ">>

\* files.map(f => f.content || '').join(NL)
allCodeOf(files) == join([k \in 1..Len(files) |-> files[k].content], <<NL>>)

\* generate dropping the file changes when the scanner reports a finding
generateResult_BlockedByFinding(responseText) ==
    LET files == parseFileChanges(responseText)
        securityIssues == scanForSecurityIssues(allCodeOf(files))
        explanation == extractExplanation(responseText)
    IN  [success |-> TRUE,
         response |-> responseText,
         files |-> IF Len(securityIssues) > 0 THEN <<>> ELSE files,
         explanation |-> IF Len(securityIssues) > 0
                         THEN explanation \o WarningPrefix
                                  \o join(securityIssues, <<",", " ">>)
                         ELSE explanation]

\* the value generate returns when the API call succeeds
generateResult(responseText) ==
    LET files == parseFileChanges(responseText)
        securityIssues == scanForSecurityIssues(allCodeOf(files))
        explanation == extractExplanation(responseText)
    IN  [success |-> TRUE,
         response |-> responseText,
         files |-> files,
         explanation |-> IF Len(securityIssues) > 0
                         THEN explanation \o WarningPrefix
                                  \o join(securityIssues, <<",", " ">>)
                         ELSE explanation]

\* the value generateStream hands to callbacks.onComplete
streamResult(response) ==
    [success |-> TRUE,
     response |-> response,
     files |-> parseFileChanges(response),
     explanation |-> extractExplanation(response)]

\* the value generate returns from its catch block
errorResult ==
    [success |-> FALSE, response |-> <<>>, files |-> <<>>, explanation |-> <<>>]

NoResult == [success |-> FALSE, none |-> TRUE]

(***************************************************************************)
(* The chat route: what onComplete does to the project                     *)
(***************************************************************************)
\* the ProjectFile rows of the project: path -> [content, version]
NoFiles == [p \in {} |-> 0]

withRow(db, path, row) ==
    [p \in DOMAIN db \cup {path} |-> IF p = path THEN row ELSE db[p]]

withoutRow(db, path) == [p \in DOMAIN db \ {path} |-> db[p]]

\* one iteration of the loop that saves the files; st holds the ProjectFile
\* rows, the FileVersion rows and the number of deleteMany calls
saveFile(st, file, generationId) ==
    IF file.action = "delete"
    THEN [st EXCEPT !.db = withoutRow(st.db, file.path),
                    !.deleteCalls = @ + 1]
    ELSE IF file.content # <<>>
    THEN IF file.path \in DOMAIN st.db
         THEN LET existingFile == st.db[file.path]
              IN  [st EXCEPT
                     !.versions = Append(@, [path |-> file.path,
                                             content |-> existingFile.content,
                                             version |-> existingFile.version,
                                             generationId |-> generationId]),
                     !.db = withRow(st.db, file.path,
                                    [content |-> file.content,
                                     version |-> existingFile.version + 1])]
         ELSE [st EXCEPT !.db = withRow(st.db, file.path,
                                        [content |-> file.content,
                                         version |-> 1])]
    ELSE st

RECURSIVE saveFiles(_, _, _, _)
saveFiles(st, filesWithActions, k, generationId) ==
    IF k > Len(filesWithActions) THEN st
    ELSE saveFiles(saveFile(st, filesWithActions[k], generationId),
                   filesWithActions, k + 1, generationId)

(***************************************************************************)
(* State                                                                   *)
(***************************************************************************)
VARIABLES
    pc,               \* where the request is
    responseText,     \* generate: the text the API call returned
    fullResponse,     \* generateStream: the text streamed so far
    nTokens,          \* the number of stream events received
    result,           \* the GenerationResult of the provider
    nRequests,        \* the number of chat requests started
    projectFiles,     \* project.files as read when the request started (paths)
    db,               \* the ProjectFile rows
    versions,         \* the FileVersion rows, in the order created
    deleteCalls,      \* the number of projectFile.deleteMany calls
    filesWithActions, \* onComplete: the classified file changes
    generation,       \* the generation record: status and filesChanged
    input,            \* the argument of a direct call of a pipeline function
    output,           \* what that call returned
    called,           \* whether the call has been made
    routeResponse,    \* the route: its own fullResponse, built by onToken
    delivered,        \* the text deltas passed to onToken, in order
    invoked,          \* the pipeline calls of this generation: function and text
    calls,            \* the invocations of pipeline functions run step by step
    regexes,          \* lastIndex of the RegExp object of each invocation
    usage,            \* the usage records of the user with this month's periodStart
    messages,         \* the Message rows of the project
    reqs,             \* the chat requests being served, each with its locals
    edits,            \* the calls of the file routes being served
    signals           \* the callbacks one generateStream call has invoked

providerVars == << responseText, fullResponse, nTokens, result >>
routeVars == << nRequests, projectFiles, db, versions, deleteCalls,
                filesWithActions, generation, routeResponse >>
traceVars == << delivered, invoked >>
callVars == << input, output, called, calls, regexes >>
serverVars == << usage, messages, reqs, edits, signals >>
vars == << pc, providerVars, routeVars, traceVars, callVars, serverVars >>

\* every text made of at most n deltas drawn from tokens
RECURSIVE ResponsesOf(_, _)
ResponsesOf(tokens, n) ==
    IF n = 0 THEN {<<>>}
    ELSE LET r == ResponsesOf(tokens, n - 1)
         IN  r \cup {x \o t : x \in r, t \in tokens}

\* the projects a request can find: no file yet, or a.ts stored before
InitialProjects ==
    { NoFiles, withRow(NoFiles, PathA, [content |-> <<"x">>, version |-> 1]) }

\* project.files.map(f => f.path): the paths of the rows, in some order
RECURSIVE pathsOf(_)
pathsOf(rows) ==
    IF DOMAIN rows = {} THEN <<>>
    ELSE LET p == CHOOSE q \in DOMAIN rows : TRUE
         IN  <<p>> \o pathsOf(withoutRow(rows, p))

NoGeneration == [status |-> "NONE", filesChanged |-> <<>>, response |-> <<>>]
NewGeneration == [status |-> "IN_PROGRESS", filesChanged |-> <<>>, response |-> <<>>]

InitRequest ==
    /\ pc = "idle"
    /\ responseText = <<>>
    /\ fullResponse = <<>>
    /\ nTokens = 0
    /\ result = NoResult
    /\ nRequests = 0
    /\ db \in InitialProjects
    /\ projectFiles = <<>>
    /\ versions = <<>>
    /\ deleteCalls = 0
    /\ filesWithActions = <<>>
    /\ generation = NoGeneration
    /\ routeResponse = <<>>
    /\ delivered = <<>>
    /\ invoked = <<>>

\* no pipeline function is being run step by step
NoInvocations ==
    /\ calls = <<>>
    /\ regexes = <<>>

\* no request is being served by the routes and no callback has been invoked
NoServer ==
    /\ usage = EmptyBag
    /\ messages = {}
    /\ reqs = <<>>
    /\ edits = <<>>
    /\ signals = <<>>

NoCall == /\ input = <<>>
          /\ output = <<>>
          /\ called = FALSE
          /\ NoInvocations
          /\ NoServer

Init == InitRequest /\ NoCall

\* provider.generate: the API call returns the whole text
Generate ==
    /\ pc = "idle"
    /\ \E text \in ResponsesOf(Tokens, MaxTokens) :
           /\ responseText' = text
           /\ result' = generateResult(text)
    /\ pc' = "returned"
    /\ UNCHANGED << fullResponse, nTokens, routeVars, traceVars, callVars,
                    serverVars >>

\* provider.generate: the API call throws
GenerateFails ==
    /\ pc = "idle"
    /\ result' = errorResult
    /\ pc' = "caught"
    /\ UNCHANGED << responseText, fullResponse, nTokens, routeVars, traceVars,
                    callVars,
                    serverVars >>

\* the POST handler up to its call of provider.generateStream: it reads the
\* project with its files and creates the generation record
Post ==
    /\ projectFiles' = pathsOf(db)
    /\ generation' = NewGeneration
    /\ nRequests' = nRequests + 1
    /\ fullResponse' = <<>>
    /\ routeResponse' = <<>>
    /\ delivered' = <<>>
    /\ invoked' = <<>>
    /\ nTokens' = 0
    /\ result' = NoResult
    /\ pc' = "streaming"
    /\ UNCHANGED << responseText, db, versions, deleteCalls, filesWithActions,
                    callVars,
                    serverVars >>

\* the one chat request of Spec
StartStream ==
    /\ pc = "idle"
    /\ Post

\* the onToken callback of the route storing the delta in a fresh string
onTokenAppend_Overwrite(response, token) == token

\* the onToken callback of the route: fullResponse += token
onTokenAppend(response, token) == response \o token

\* what a stream event with a text delta does: the provider appends the
\* delta to its fullResponse and passes it to callbacks.onToken
deliver(token) ==
    /\ fullResponse' = fullResponse \o token
    /\ routeResponse' = onTokenAppend(routeResponse, token)
    /\ delivered' = Append(delivered, token)

\* one text delta of the stream
Receive(tokens, max) ==
    /\ pc = "streaming"
    /\ nTokens < max
    /\ \E token \in tokens : deliver(token)
    /\ nTokens' = nTokens + 1
    /\ UNCHANGED << pc, responseText, result, nRequests, projectFiles, db,
                    versions, deleteCalls, filesWithActions, generation,
                    invoked, callVars,
                    serverVars >>

OnToken == Receive(Tokens, MaxTokens)

\* the stream ends: the provider parses and calls callbacks.onComplete
StreamEnd ==
    /\ pc = "streaming"
    /\ result' = streamResult(fullResponse)
    /\ invoked' = invoked \o
           << [fn |-> "parseFileChanges", on |-> fullResponse],
              [fn |-> "extractExplanation", on |-> fullResponse] >>
    /\ pc' = "onComplete"
    /\ UNCHANGED << responseText, fullResponse, nTokens, routeVars, delivered,
                    callVars,
                    serverVars >>

\* the stream throws: the provider calls callbacks.onError
StreamFails ==
    /\ pc = "streaming"
    /\ pc' = "onError"
    /\ UNCHANGED << providerVars, routeVars, traceVars, callVars,
                    serverVars >>

\* the onComplete callback of the route
OnComplete ==
    /\ pc = "onComplete"
    /\ LET existingPaths == projectFiles
           withActions == determineFileActions(result.files, existingPaths)
           st == saveFiles([db |-> db, versions |-> versions,
                            deleteCalls |-> deleteCalls],
                           withActions, 1, nRequests)
       IN  /\ filesWithActions' = withActions
           /\ db' = st.db
           /\ versions' = st.versions
           /\ deleteCalls' = st.deleteCalls
           /\ generation' = [status |-> "COMPLETED",
                             filesChanged |-> withActions,
                             response |-> routeResponse]
    /\ invoked' = Append(invoked, [fn |-> "determineFileActions",
                                   on |-> result.files])
    /\ pc' = "completed"
    /\ UNCHANGED << providerVars, nRequests, projectFiles, routeResponse,
                    delivered, callVars,
                    serverVars >>

\* the onError callback of the route
OnError ==
    /\ pc = "onError"
    /\ generation' = [generation EXCEPT !.status = "FAILED"]
    /\ pc' = "failed"
    /\ UNCHANGED << providerVars, nRequests, projectFiles, db, versions,
                    deleteCalls, filesWithActions, routeResponse, traceVars,
                    callVars,
                    serverVars >>

Next ==
    \/ Generate
    \/ GenerateFails
    \/ StartStream
    \/ OnToken
    \/ StreamEnd
    \/ StreamFails
    \/ OnComplete
    \/ OnError

Spec == Init /\ [][Next]_vars

(***************************************************************************)
(* Direct calls of isValidFilePath                                         *)
(***************************************************************************)
\* the characters candidate paths are made of: a letter of each case, a
\* digit, the separators the rules name and one character no rule allows
PathAlphabet == {"a", "Z", "1", ".", "/", ":", " ", "-"}

\* the length of the candidates enumerated in full
MaxPathChars == 3

StringsUpTo(alphabet, n) == UNION {[1..k -> alphabet] : k \in 0..n}

Pad(c, n) == [i \in 1..n |-> c]

toUpperChar(c) ==
    IF c \in LowerChars THEN UpperSeq[CHOOSE i \in 1..26 : LowerSeq[i] = c] ELSE c

\* candidates around the length limit
LongPaths ==
    { Pad("a", n) \o tail :
        n \in (MaxPathLength - 3)..MaxPathLength,
        tail \in StringsUpTo({"a", ".", "/"}, 2) }

\* the config file names as written, in one case, and with a character added
ConfigLikePaths ==
    UNION { { name,
              [i \in 1..Len(name) |-> toLowerChar(name[i])],
              [i \in 1..Len(name) |-> toUpperChar(name[i])] }
            \cup { name \o <<c>> : c \in PathAlphabet }
            \cup { <<c>> \o name : c \in PathAlphabet }
            : name \in ConfigFileNames }

PathInputs ==
    StringsUpTo(PathAlphabet, MaxPathChars) \cup LongPaths \cup ConfigLikePaths

\* the request variables of a specification that makes direct calls only
NoRequest ==
    /\ pc = "call"
    /\ responseText = <<>>
    /\ fullResponse = <<>>
    /\ nTokens = 0
    /\ result = NoResult
    /\ nRequests = 0
    /\ db = NoFiles
    /\ projectFiles = <<>>
    /\ versions = <<>>
    /\ deleteCalls = 0
    /\ filesWithActions = <<>>
    /\ generation = NoGeneration
    /\ routeResponse = <<>>
    /\ delivered = <<>>
    /\ invoked = <<>>

InitPath ==
    /\ NoRequest
    /\ input \in PathInputs
    /\ output = <<>>
    /\ called = FALSE
    /\ NoInvocations
    /\ NoServer

CallIsValidFilePath ==
    /\ ~called
    /\ output' = isValidFilePath(input)
    /\ called' = TRUE
    /\ UNCHANGED << pc, providerVars, routeVars, traceVars, input, calls,
                    regexes, serverVars >>

NextPath == CallIsValidFilePath

SpecPath == InitPath /\ [][NextPath]_vars

(***************************************************************************)
(* Direct calls of scanForSecurityIssues                                   *)
(***************************************************************************)
\* a match of each category
ScanApiKey == <<"a","p","i","_","k","e","y","=","\"","1","2","3","4","5","6","7","8","9","0","\"">>
ScanSecret == <<"S","e","c","r","e","t"," ","="," ","'","1","2","3","4","5","6","7","8","9","0","'">>
ScanPassword == <<"P","A","S","S","W","O","R","D",":"," ","'","p","'">>
ScanStripe == <<"s","k","_","t","e","s","t","_","a","1">>
ScanAws == <<"A","K","I","A","A","1","A","1","A","1","A","1","A","1","A","1","A","1","A","1">>
ScanGithub == <<"g","h","p","_","a","B","3","a","B","3","a","B","3","a","B","3","a","B","3","a","B","3","a","B","3","a","B","3","a","B","3","a","B","3","a","B","3","a","B","3">>
ScanBearer == <<"B","e","a","r","e","r"," ","a",".","b","=">>
\* near misses: a literal too short, a prefix in the other case,
\* a token too short, an unquoted value
ScanShortApiKey == <<"a","p","i","k","e","y","=","\"","1","2","3","4","5","6","7","8","9","\"">>
ScanUpperStripe == <<"S","K","_","T","E","S","T","_","a","1">>
ScanLowerBearer == <<"b","e","a","r","e","r"," ","a",".","b">>
ScanShortAws == <<"A","K","I","A","A","1","A","1","A","1","A","1","A","1","A","1","A","1","A">>
ScanUnquoted == <<"p","a","s","s","w","o","r","d"," ","="," ","p">>
\* Stripe tokens with the other prefixes
ScanStripeLive == <<"s","k","-","l","i","v","e","-","A","b","9">>
ScanStripeLiveUnderscore == <<"s","k","_","l","i","v","e","_","x">>
ScanStripeTest == <<"s","k","-","t","e","s","t","-","7">>
\* a line break between parts
ScanSeparator == <<NL>>
\* every category at once, in the reverse of the order of the patterns
ScanAllReversed ==
    ScanBearer \o <<" ">> \o ScanGithub \o <<" ">> \o ScanAws \o <<" ">>
        \o ScanStripe \o <<" ">> \o ScanPassword \o <<" ">> \o ScanSecret
        \o <<" ">> \o ScanApiKey

ScanParts ==
    { ScanApiKey,
      ScanSecret,
      ScanPassword,
      ScanStripe,
      ScanAws,
      ScanGithub,
      ScanBearer,
      ScanShortApiKey,
      ScanUpperStripe,
      ScanLowerBearer,
      ScanShortAws,
      ScanUnquoted,
      ScanStripeLive,
      ScanStripeLiveUnderscore,
      ScanStripeTest,
      ScanSeparator,
      ScanAllReversed }

\* the number of parts of a scanned text
MaxScanParts == 2

InitScan ==
    /\ NoRequest
    /\ input \in ResponsesOf(ScanParts, MaxScanParts)
    /\ output = <<>>
    /\ called = FALSE
    /\ NoInvocations
    /\ NoServer

CallScanForSecurityIssues ==
    /\ ~called
    /\ output' = scanForSecurityIssues(input)
    /\ called' = TRUE
    /\ UNCHANGED << pc, providerVars, routeVars, traceVars, input, calls,
                    regexes, serverVars >>

NextScan == CallScanForSecurityIssues

SpecScan == InitScan /\ [][NextScan]_vars

(***************************************************************************)
(* Direct calls of determineFileActions                                    *)
(***************************************************************************)
PathUpperA == <<"A",".","t","s">>

\* the changes and the existing paths a call is given: paths that differ in
\* case only or not at all, every action the type allows, content or none
ClassifyPaths == {PathA, PathUpperA, PathB}
ClassifyChanges ==
    { FileChange(path, action, content) :
        path \in ClassifyPaths,
        action \in {"create", "update", "delete"},
        content \in {<<>>, <<"x">>} }

\* the length of the list of changes and of the list of existing paths
MaxChanges == 2
MaxExisting == 2

InitClassify ==
    /\ NoRequest
    /\ input \in [changes : StringsUpTo(ClassifyChanges, MaxChanges),
                  existingPaths : StringsUpTo(ClassifyPaths, MaxExisting)]
    /\ output = <<>>
    /\ called = FALSE
    /\ NoInvocations
    /\ NoServer

CallDetermineFileActions ==
    /\ ~called
    /\ output' = determineFileActions(input.changes, input.existingPaths)
    /\ called' = TRUE
    /\ UNCHANGED << pc, providerVars, routeVars, traceVars, input, calls,
                    regexes, serverVars >>

NextClassify == CallDetermineFileActions

SpecClassify == InitClassify /\ [][NextClassify]_vars

(***************************************************************************)
(* Chat requests one after the other on one project                        *)
(***************************************************************************)
\* the text deltas of these requests
ChatTokens == {TokBlockA, TokSimpleA, TokOpenB, TokFence, TokProse}

\* the number of text deltas of one of these completions
MaxChatTokens == 2

\* the number of chat requests
MaxRequests == 2

\* a chat request, the first or one that follows a finished one
ChatPost ==
    /\ pc \in {"idle", "completed", "failed"}
    /\ nRequests < MaxRequests
    /\ Post

ChatOnToken == Receive(ChatTokens, MaxChatTokens)

\* a stream event that carries no text (message_start, message_delta, a
\* chunk without content): nothing is appended and onToken is not called
ChatOtherEvent ==
    /\ pc = "streaming"
    /\ nTokens < MaxChatTokens
    /\ nTokens' = nTokens + 1
    /\ UNCHANGED << pc, responseText, fullResponse, result, routeVars,
                    traceVars, callVars,
                    serverVars >>

\* a text delta whose onToken throws after it has appended (enqueue on a
\* stream the client has cancelled): the catch block of the provider calls
\* callbacks.onError
ChatOnTokenThrows ==
    /\ pc = "streaming"
    /\ nTokens < MaxChatTokens
    /\ \E token \in ChatTokens : deliver(token)
    /\ nTokens' = nTokens + 1
    /\ pc' = "onError"
    /\ UNCHANGED << responseText, result, nRequests, projectFiles, db,
                    versions, deleteCalls, filesWithActions, generation,
                    invoked, callVars,
                    serverVars >>

NextChat ==
    \/ ChatPost
    \/ ChatOnToken
    \/ ChatOtherEvent
    \/ ChatOnTokenThrows
    \/ StreamEnd
    \/ StreamFails
    \/ OnComplete
    \/ OnError

SpecChat == Init /\ [][NextChat]_vars

(***************************************************************************)
(* The pipeline functions run step by step: one step for every iteration   *)
(* of a loop of the source, so that invocations can be followed through    *)
(* their scans and can overlap                                             *)
(***************************************************************************)
\* an invocation that has been made and has not started to run
NewInvocation(fn, arg) ==
    [fn |-> fn, arg |-> arg, phase |-> "called",
     files |-> <<>>,    \* parseFileChanges: the local files
     log |-> <<>>,      \* the matches of the two loops, in the order found
     k |-> 0,           \* scanForSecurityIssues: the position in patterns
     issues |-> <<>>,   \* scanForSecurityIssues: the local issues
     ret |-> <<>>]      \* the value returned

\* one RegExp object for every invocation, as if the literals were hoisted
\* to module level
regexOf_ModuleLevel(c) == 1

\* the RegExp object invocation c scans with: the literals are evaluated in
\* the body of the function, so every invocation creates its own
regexOf(c) == c

\* what one match adds to the log: where it began, where the scan goes on,
\* and the number of files after the body of the loop
logEntry(pass, m, files) ==
    [pass |-> pass, index |-> m.index, lastIndex |-> m.lastIndex,
     n |-> Len(files)]

\* the variables a step of an invocation leaves alone
invocationFrame ==
    UNCHANGED << pc, providerVars, routeVars, traceVars, input, output, called,
                 serverVars >>

\* parseFileChanges is entered: files is empty and codeBlockRegex is created
\* with lastIndex 0
ParseBegin(c) ==
    /\ calls[c].fn = "parseFileChanges"
    /\ calls[c].phase = "called"
    /\ calls' = [calls EXCEPT ![c].phase = "first", ![c].files = <<>>]
    /\ regexes' = [regexes EXCEPT ![regexOf(c)] = 1]
    /\ invocationFrame

\* an iteration of the first while loop: exec finds a match
FirstLoopIteration(c) ==
    /\ calls[c].phase = "first"
    /\ LET m == codeBlockRegexExec(calls[c].arg, regexes[regexOf(c)])
           files == IF m.found THEN firstLoopBody(calls[c].files, m) ELSE <<>>
       IN  /\ m.found
           /\ calls' = [calls EXCEPT
                          ![c].files = files,
                          ![c].log = Append(@, logEntry(1, m, files))]
           /\ regexes' = [regexes EXCEPT ![regexOf(c)] = m.lastIndex]
    /\ invocationFrame

\* exec returns null: the first loop ends and simpleBlockRegex is created
\* with lastIndex 0
FirstLoopEnd(c) ==
    /\ calls[c].phase = "first"
    /\ ~codeBlockRegexExec(calls[c].arg, regexes[regexOf(c)]).found
    /\ calls' = [calls EXCEPT ![c].phase = "second"]
    /\ regexes' = [regexes EXCEPT ![regexOf(c)] = 1]
    /\ invocationFrame

\* an iteration of the second while loop
SecondLoopIteration(c) ==
    /\ calls[c].phase = "second"
    /\ LET m == simpleBlockRegexExec(calls[c].arg, regexes[regexOf(c)])
           files == IF m.found THEN secondLoopBody(calls[c].files, m) ELSE <<>>
       IN  /\ m.found
           /\ calls' = [calls EXCEPT
                          ![c].files = files,
                          ![c].log = Append(@, logEntry(2, m, files))]
           /\ regexes' = [regexes EXCEPT ![regexOf(c)] = m.lastIndex]
    /\ invocationFrame

\* exec returns null (and sets lastIndex to 0): return files
SecondLoopEnd(c) ==
    /\ calls[c].phase = "second"
    /\ ~simpleBlockRegexExec(calls[c].arg, regexes[regexOf(c)]).found
    /\ calls' = [calls EXCEPT ![c].phase = "returned", ![c].ret = calls[c].files]
    /\ regexes' = [regexes EXCEPT ![regexOf(c)] = 1]
    /\ invocationFrame

\* scanForSecurityIssues is entered: issues is empty, patterns is created
ScanBegin(c) ==
    /\ calls[c].fn = "scanForSecurityIssues"
    /\ calls[c].phase = "called"
    /\ calls' = [calls EXCEPT ![c].phase = "scanning", ![c].k = 1,
                              ![c].issues = <<>>]
    /\ UNCHANGED regexes
    /\ invocationFrame

\* an iteration of the for loop over patterns: one test, on a RegExp object
\* no other test uses
ScanIteration(c) ==
    /\ calls[c].phase = "scanning"
    /\ calls[c].k <= Len(PatternNames)
    /\ calls' = [calls EXCEPT
                   ![c].issues = IF patternTest(calls[c].k, calls[c].arg)
                                 THEN Append(@, issueOf(PatternNames[calls[c].k]))
                                 ELSE @,
                   ![c].k = @ + 1]
    /\ UNCHANGED regexes
    /\ invocationFrame

\* the for loop is over: return issues
ScanEnd(c) ==
    /\ calls[c].phase = "scanning"
    /\ calls[c].k > Len(PatternNames)
    /\ calls' = [calls EXCEPT ![c].phase = "returned", ![c].ret = calls[c].issues]
    /\ UNCHANGED regexes
    /\ invocationFrame

\* extractExplanation: a replace, a split, a filter, a join and a trim, with
\* no loop of its own
CallExtractExplanation(c) ==
    /\ calls[c].fn = "extractExplanation"
    /\ calls[c].phase = "called"
    /\ calls' = [calls EXCEPT ![c].phase = "returned",
                              ![c].ret = extractExplanation(calls[c].arg)]
    /\ UNCHANGED regexes
    /\ invocationFrame

\* determineFileActions: one map
CallClassify(c) ==
    /\ calls[c].fn = "determineFileActions"
    /\ calls[c].phase = "called"
    /\ calls' = [calls EXCEPT
                   ![c].phase = "returned",
                   ![c].ret = determineFileActions(calls[c].arg.changes,
                                                   calls[c].arg.existingPaths)]
    /\ UNCHANGED regexes
    /\ invocationFrame

(***************************************************************************)
(* One invocation of parseFileChanges or of extractExplanation on a        *)
(* response                                                                *)
(***************************************************************************)
\* a closed block whose header holds a space and no tag
TokSpaced ==
    <<BT,BT,BT,"m","y"," ","a",".","t","s",NL,"x",NL,BT,BT,BT>>

\* a closed block whose header is the tag alone
TokEmptyTag ==
    <<BT,BT,BT,"f","i","l","e","p","a","t","h",":",NL,"x",NL,BT,BT,BT>>

\* a closed block headed by a language name in upper case
TokUpperLang ==
    <<BT,BT,BT,"T","S",NL,"x",NL,BT,BT,BT>>

\* a closed block whose tag follows a space, path and body padded with spaces
TokIndented ==
    <<BT,BT,BT," ","f","i","l","e","p","a","t","h",":"," ","b",".","t","s"," ",NL," ","w"," ",NL,BT,BT,BT,NL>>

\* a language-tagged block whose first line ends in an extension with a digit
TokDigitExt ==
    <<BT,BT,BT,"j","s",NL,"b",".","m","p","3",NL,"q",NL,BT,BT,BT>>

\* a language-tagged block whose first line ends in an upper-case extension
TokUpperExt ==
    <<BT,BT,BT,"j","s",NL,"/","/"," ","b",".","T","S",NL,"q",NL,BT,BT,BT>>

\* a language-tagged block whose first line is a padded path with a directory
TokSimpleB ==
    <<BT,BT,BT,"t","s",NL," ","s","r","c","/","b",".","t","s",NL," ","q",NL,BT,BT,BT,NL>>

\* a language-tagged block whose commented first line is a dot file
TokSimpleDotfile ==
    <<BT,BT,BT,"s","h",NL,"/","/"," ",".","e","n","v",NL,"K","=","1",NL,BT,BT,BT>>

\* a closed block whose header has a slash and no extension
TokSlashOnly ==
    <<BT,BT,BT,"f","i","l","e","p","a","t","h",":","s","r","c","/","b",NL,"x",NL,BT,BT,BT>>


\* a line of prose with a closed fence pair in it
TokInline ==
    <<"R","u","n"," ",BT,BT,BT,"n","p","m"," ","i",BT,BT,BT," ","f","i","r","s","t",".",NL>>

\* the parts responses are made of
ParseParts ==
    { TokInline,
      TokBlockA,
      TokBlockA2,
      TokSimpleA,
      TokTraversal,
      TokOpenB,
      TokFence,
      TokProse,
      TokBlank,
      TokLangOnly,
      TokDocker,
      TokSpaced,
      TokEmptyTag,
      TokUpperLang,
      TokIndented,
      TokDigitExt,
      TokUpperExt,
      TokSimpleB,
      TokSimpleDotfile,
      TokSlashOnly }

\* the number of parts of a response
MaxParseParts == 2

ParseInputs == ResponsesOf(ParseParts, MaxParseParts)

InitParse ==
    /\ NoRequest
    /\ input = <<>>
    /\ output = <<>>
    /\ called = FALSE
    /\ \E fn \in {"parseFileChanges", "extractExplanation"} :
       \E arg \in ParseInputs :
           calls = << NewInvocation(fn, arg) >>
    /\ regexes = << 1 >>
    /\ NoServer

NextParse ==
    \/ \E c \in DOMAIN calls : ParseBegin(c)
    \/ \E c \in DOMAIN calls : FirstLoopIteration(c)
    \/ \E c \in DOMAIN calls : FirstLoopEnd(c)
    \/ \E c \in DOMAIN calls : SecondLoopIteration(c)
    \/ \E c \in DOMAIN calls : SecondLoopEnd(c)
    \/ \E c \in DOMAIN calls : CallExtractExplanation(c)

SpecParse == InitParse /\ [][NextParse]_vars

(***************************************************************************)
(* Invocations of the four functions made one after the other and          *)
(* overlapping: a request handler calls them for its own response while    *)
(* others are being served                                                 *)
(***************************************************************************)
\* the number of invocations made
MaxInvocations == 2

PipelineFunctions ==
    {"parseFileChanges", "extractExplanation", "scanForSecurityIssues",
     "determineFileActions"}

\* three closed blocks headed by the config names that have no dot
TokConfigNames ==
    <<BT,BT,BT,"f","i","l","e","p","a","t","h",":","D","o","c","k","e","r","f","i","l","e",NL,"F","R","O","M"," ","x",NL,BT,BT,BT,NL,BT,BT,BT,"f","i","l","e","p","a","t","h",":","M","a","k","e","f","i","l","e",NL,"a","l","l",":",NL,BT,BT,BT,NL,BT,BT,BT,"f","i","l","e","p","a","t","h",":","R","E","A","D","M","E",NL,"h","i",NL,BT,BT,BT,NL>>

\* the empty response, one with an unclosed block before a closed one, one
\* with a block for each pass, and one naming config files without a dot
InvokedResponses ==
    { <<>>, TokOpenB \o TokBlockA, TokBlockA \o TokSimpleB, TokConfigNames }

\* the empty code and one with two findings
InvokedCodes == { <<>>, ScanPassword \o <<NL>> \o ScanStripe }

InvokedClassifications ==
    { [changes |-> << FileChange(PathA, "create", <<"x">>) >>,
       existingPaths |-> << PathA >>],
      [changes |-> << FileChange(PathB, "update", <<>>) >>,
       existingPaths |-> << PathA >>] }

InvocationArgs(fn) ==
    CASE fn = "parseFileChanges" -> InvokedResponses
      [] fn = "extractExplanation" -> InvokedResponses
      [] fn = "scanForSecurityIssues" -> InvokedCodes
      [] fn = "determineFileActions" -> InvokedClassifications

InitInvocations ==
    /\ NoRequest
    /\ input = <<>>
    /\ output = <<>>
    /\ called = FALSE
    /\ NoInvocations
    /\ NoServer

\* a caller invokes one of the functions on an argument of its own
Invoke ==
    /\ Len(calls) < MaxInvocations
    /\ \E fn \in PipelineFunctions :
       \E arg \in InvocationArgs(fn) :
           /\ calls' = Append(calls, NewInvocation(fn, arg))
           /\ regexes' = Append(regexes, 1)
    /\ invocationFrame

NextInvocations ==
    \/ Invoke
    \/ \E c \in DOMAIN calls : ParseBegin(c)
    \/ \E c \in DOMAIN calls : FirstLoopIteration(c)
    \/ \E c \in DOMAIN calls : FirstLoopEnd(c)
    \/ \E c \in DOMAIN calls : SecondLoopIteration(c)
    \/ \E c \in DOMAIN calls : SecondLoopEnd(c)
    \/ \E c \in DOMAIN calls : ScanBegin(c)
    \/ \E c \in DOMAIN calls : ScanIteration(c)
    \/ \E c \in DOMAIN calls : ScanEnd(c)
    \/ \E c \in DOMAIN calls : CallExtractExplanation(c)
    \/ \E c \in DOMAIN calls : CallClassify(c)

SpecInvocations == InitInvocations /\ [][NextInvocations]_vars

(***************************************************************************)
(* One call of generateStream with callbacks of any behaviour: a callback  *)
(* returns or throws                                                       *)
(***************************************************************************)
\* the number of events of the stream
MaxStreamEvents == 3

InitCallbacks ==
    /\ pc = "streaming"
    /\ responseText = <<>>
    /\ fullResponse = <<>>
    /\ nTokens = 0
    /\ result = NoResult
    /\ nRequests = 0
    /\ db = NoFiles
    /\ projectFiles = <<>>
    /\ versions = <<>>
    /\ deleteCalls = 0
    /\ filesWithActions = <<>>
    /\ generation = NoGeneration
    /\ routeResponse = <<>>
    /\ delivered = <<>>
    /\ invoked = <<>>
    /\ NoCall
    /\ signals = <<>>

\* the variables a step of generateStream leaves alone
callbacksFrame ==
    UNCHANGED << responseText, result, routeVars, traceVars, callVars, usage,
                 messages, reqs, edits >>

\* the catch block: callbacks.onError is called after the signals given, and
\* returns, or throws out of generateStream
catchBlock(given) ==
    /\ signals' = given \o << [fn |-> "onError", arg |-> <<>>] >>
    /\ pc' \in {"returned", "thrown"}

\* an event with a text delta: the delta is appended and onToken returns
TokenEvent ==
    /\ pc = "streaming"
    /\ nTokens < MaxStreamEvents
    /\ \E token \in ChatTokens :
           /\ fullResponse' = fullResponse \o token
           /\ signals' = Append(signals, [fn |-> "onToken", arg |-> token])
    /\ nTokens' = nTokens + 1
    /\ pc' = pc
    /\ callbacksFrame

\* an event with a text delta whose onToken throws: the catch block runs
TokenEventThrows ==
    /\ pc = "streaming"
    /\ nTokens < MaxStreamEvents
    /\ \E token \in ChatTokens :
           /\ fullResponse' = fullResponse \o token
           /\ catchBlock(Append(signals, [fn |-> "onToken", arg |-> token]))
    /\ nTokens' = nTokens + 1
    /\ callbacksFrame

\* an event without text
OtherEvent ==
    /\ pc = "streaming"
    /\ nTokens < MaxStreamEvents
    /\ nTokens' = nTokens + 1
    /\ UNCHANGED << pc, fullResponse, signals >>
    /\ callbacksFrame

\* the stream or the request to the API throws
StreamThrows ==
    /\ pc = "streaming"
    /\ catchBlock(signals)
    /\ UNCHANGED << fullResponse, nTokens >>
    /\ callbacksFrame

\* the stream ends: the text is parsed and onComplete is called; it returns
\* (a value or a promise, which is not awaited)
StreamEndsCompleteReturns ==
    /\ pc = "streaming"
    /\ signals' = Append(signals, [fn |-> "onComplete", arg |-> fullResponse])
    /\ pc' = "returned"
    /\ UNCHANGED << fullResponse, nTokens >>
    /\ callbacksFrame

\* the stream ends and onComplete throws: the call is inside the try block,
\* so the catch block runs
StreamEndsCompleteThrows ==
    /\ pc = "streaming"
    /\ catchBlock(Append(signals, [fn |-> "onComplete", arg |-> fullResponse]))
    /\ UNCHANGED << fullResponse, nTokens >>
    /\ callbacksFrame

NextCallbacks ==
    \/ TokenEvent
    \/ TokenEventThrows
    \/ OtherEvent
    \/ StreamThrows
    \/ StreamEndsCompleteReturns
    \/ StreamEndsCompleteThrows

SpecCallbacks == InitCallbacks /\ [][NextCallbacks]_vars

(***************************************************************************)
(* The chat route and the file routes served concurrently: every await of  *)
(* a handler is a step of its own, so that requests interleave             *)
(***************************************************************************)
\* the number of chat requests, of file-route calls, of text deltas of one
\* stream, and the user's monthlyGenerationsLimit
MaxRoutes == 2
MaxEdits == 1
MaxRouteTokens == 1
MonthlyLimit == 1

\* a closed block tagged filepath:b.ts with body y
TokRouteB ==
    <<BT,BT,BT,"f","i","l","e","p","a","t","h",":","b",".","t","s",NL,"y",NL,BT,BT,BT,NL>>
\* a closed block tagged filepath:b.ts whose body is one space
TokEmptyB ==
    <<BT,BT,BT,"f","i","l","e","p","a","t","h",":","b",".","t","s",NL," ",NL,BT,BT,BT,NL>>
\* two closed blocks tagged filepath:b.ts, with bodies y and z
TokTwiceB ==
    TokRouteB \o
    <<BT,BT,BT,"f","i","l","e","p","a","t","h",":","b",".","t","s",NL,"z",NL,BT,BT,BT,NL>>
RouteTokens == {TokRouteB, TokEmptyB, TokTwiceB}

\* what the file routes are asked to store
EditContent == <<"e">>

\* findUnique found nothing
NoRow == [content |-> <<>>, version |-> 0]

NoRouteGeneration ==
    [status |-> "NONE", filesChanged |-> <<>>, response |-> <<>>,
     errorMessage |-> ""]

\* the locals of a chat request that has just arrived
NewRequest ==
    [pc |-> "findFirst", files |-> <<>>, fullResponse |-> <<>>, nTokens |-> 0,
     filesWithActions |-> <<>>, k |-> 0, existingFile |-> NoRow,
     generation |-> NoRouteGeneration, events |-> <<>>, closed |-> FALSE,
     ops |-> <<>>, failed |-> FALSE]

\* the locals of a call of a file route that has just arrived
NewEdit == [pc |-> "findUnique", kind |-> "", path |-> <<>>, existingFile |-> NoRow]

\* one server-sent event
sse(type, content, files) == [type |-> type, content |-> content, files |-> files]

\* fileVersion.create: the row is inserted
insertVersion(rows, row) == Append(rows, row)

\* the for loop of onComplete without its test of file.content
nextChange_NoContentTest(changes, k) == k

\* the for loop of onComplete from index k on: the next change that is not a
\* delete and has content, the one the loop acts on (determineFileActions
\* returns no delete)
nextChange(changes, k) ==
    IF \E j \in k..Len(changes) : changes[j].content # <<>>
    THEN CHOOSE j \in k..Len(changes) :
            /\ changes[j].content # <<>>
            /\ \A i \in k..(j - 1) : changes[i].content = <<>>
    ELSE Len(changes) + 1

\* where onComplete goes on with its change k
loopStep(rec, k) ==
    [rec EXCEPT !.k = k,
                !.existingFile = NoRow,
                !.pc = IF k <= Len(rec.filesWithActions)
                       THEN "findUnique" ELSE "generationUpdate"]

InitRoute ==
    /\ pc = "serving"
    /\ responseText = <<>>
    /\ fullResponse = <<>>
    /\ nTokens = 0
    /\ result = NoResult
    /\ nRequests = 0
    /\ db = NoFiles
    /\ projectFiles = <<>>
    /\ versions = <<>>
    /\ deleteCalls = 0
    /\ filesWithActions = <<>>
    /\ generation = NoGeneration
    /\ routeResponse = <<>>
    /\ delivered = <<>>
    /\ invoked = <<>>
    /\ input = <<>>
    /\ output = <<>>
    /\ called = FALSE
    /\ NoInvocations
    /\ usage = EmptyBag
    /\ messages = {}
    /\ reqs = [r \in 1..MaxRoutes |-> NewRequest]
    /\ edits = [e \in 1..MaxEdits |-> NewEdit]
    /\ signals = <<>>

\* the variables no route touches
routeFrame ==
    UNCHANGED << pc, providerVars, nRequests, projectFiles, deleteCalls,
                 filesWithActions, generation, routeResponse, traceVars,
                 callVars, signals >>

\* request r goes on with the locals rec
goesOn(r, rec) == reqs' = [reqs EXCEPT ![r] = rec]

\* project.findFirst with its files; the requests are numbered in the order
\* in which they arrive
ReadProject(r) ==
    /\ reqs[r].pc = "findFirst"
    /\ \A q \in 1..(r - 1) : reqs[q].pc # "findFirst"
    /\ goesOn(r, [reqs[r] EXCEPT !.files = pathsOf(db), !.pc = "count"])
    /\ UNCHANGED << db, versions, usage, messages, edits >>
    /\ routeFrame

\* usageRecord.count and the comparison with the limit
CheckLimit(r) ==
    /\ reqs[r].pc = "count"
    /\ goesOn(r, [reqs[r] EXCEPT
                    !.pc = IF MonthlyLimit # -1 /\ BagCardinality(usage) >= MonthlyLimit
                           THEN "refused" ELSE "userMessage"])
    /\ UNCHANGED << db, versions, usage, messages, edits >>
    /\ routeFrame

\* message.create for the prompt
SaveUserMessage(r) ==
    /\ reqs[r].pc = "userMessage"
    /\ messages' = messages \cup {[role |-> "USER", request |-> r]}
    /\ goesOn(r, [reqs[r] EXCEPT !.pc = "generationCreate"])
    /\ UNCHANGED << db, versions, usage, edits >>
    /\ routeFrame

\* generation.create
CreateGeneration(r) ==
    /\ reqs[r].pc = "generationCreate"
    /\ goesOn(r, [reqs[r] EXCEPT
                    !.generation = [NoRouteGeneration EXCEPT !.status = "IN_PROGRESS"],
                    !.pc = "streaming"])
    /\ UNCHANGED << db, versions, usage, messages, edits >>
    /\ routeFrame

\* onToken
RouteOnToken(r) ==
    /\ reqs[r].pc = "streaming"
    /\ reqs[r].nTokens < MaxRouteTokens
    /\ \E token \in RouteTokens :
           goesOn(r, [reqs[r] EXCEPT
                        !.fullResponse = @ \o token,
                        !.nTokens = @ + 1,
                        !.events = Append(@, sse("token", token, <<>>))])
    /\ UNCHANGED << db, versions, usage, messages, edits >>
    /\ routeFrame

\* the stream ends: the provider parses the text and calls onComplete, which
\* runs up to its first await
RouteStreamEnds(r) ==
    /\ reqs[r].pc = "streaming"
    /\ LET files == parseFileChanges(reqs[r].fullResponse)
           classified == determineFileActions(files, reqs[r].files)
       IN  goesOn(r, loopStep([reqs[r] EXCEPT !.filesWithActions = classified],
                              nextChange(classified, 1)))
    /\ UNCHANGED << db, versions, usage, messages, edits >>
    /\ routeFrame

\* the stream throws: the provider calls onError, which runs up to its await
RouteStreamFails(r) ==
    /\ reqs[r].pc = "streaming"
    /\ goesOn(r, [reqs[r] EXCEPT !.failed = TRUE, !.pc = "markFailed"])
    /\ UNCHANGED << db, versions, usage, messages, edits >>
    /\ routeFrame

\* projectFile.findUnique for change k
FindExisting(r) ==
    /\ reqs[r].pc = "findUnique"
    /\ LET path == reqs[r].filesWithActions[reqs[r].k].path
       IN  goesOn(r, IF path \in DOMAIN db
                     THEN [reqs[r] EXCEPT !.existingFile = db[path],
                                          !.pc = "versionCreate"]
                     ELSE [reqs[r] EXCEPT !.existingFile = NoRow,
                                          !.pc = "fileCreate"])
    /\ UNCHANGED << db, versions, usage, messages, edits >>
    /\ routeFrame

\* fileVersion.create with what findUnique returned
BackupVersion(r) ==
    /\ reqs[r].pc = "versionCreate"
    /\ versions' = insertVersion(versions,
                      [path |-> reqs[r].filesWithActions[reqs[r].k].path,
                       content |-> reqs[r].existingFile.content,
                       version |-> reqs[r].existingFile.version,
                       generationId |-> r])
    /\ goesOn(r, [reqs[r] EXCEPT
                    !.ops = Append(@, [k |-> reqs[r].k, op |-> "version"]),
                    !.pc = "fileUpdate"])
    /\ UNCHANGED << db, usage, messages, edits >>
    /\ routeFrame

\* projectFile.update, then the loop goes on
UpdateFile(r) ==
    /\ reqs[r].pc = "fileUpdate"
    /\ LET file == reqs[r].filesWithActions[reqs[r].k]
       IN  /\ db' = withRow(db, file.path,
                            [content |-> file.content,
                             version |-> reqs[r].existingFile.version + 1])
           /\ goesOn(r, loopStep([reqs[r] EXCEPT
                                    !.ops = Append(@, [k |-> reqs[r].k,
                                                       op |-> "update"])],
                                 nextChange(reqs[r].filesWithActions,
                                            reqs[r].k + 1)))
    /\ UNCHANGED << versions, usage, messages, edits >>
    /\ routeFrame

\* projectFile.create, then the loop goes on; a row stored for the path in
\* the meantime violates the unique key projectId_path and the await rejects
CreateFile(r) ==
    /\ reqs[r].pc = "fileCreate"
    /\ LET file == reqs[r].filesWithActions[reqs[r].k]
       IN  IF file.path \in DOMAIN db
           THEN /\ goesOn(r, [reqs[r] EXCEPT !.pc = "rejected"])
                /\ db' = db
           ELSE /\ db' = withRow(db, file.path,
                                 [content |-> file.content, version |-> 1])
                /\ goesOn(r, loopStep([reqs[r] EXCEPT
                                         !.ops = Append(@, [k |-> reqs[r].k,
                                                            op |-> "create"])],
                                      nextChange(reqs[r].filesWithActions,
                                                 reqs[r].k + 1)))
    /\ UNCHANGED << versions, usage, messages, edits >>
    /\ routeFrame

\* an onComplete that sends its event right after generation.update
UpdateGeneration_ThenEvent(r) ==
    /\ reqs[r].pc = "generationUpdate"
    /\ goesOn(r, [reqs[r] EXCEPT
                    !.generation = [status |-> "COMPLETED",
                                    filesChanged |-> reqs[r].filesWithActions,
                                    response |-> reqs[r].fullResponse,
                                    errorMessage |-> ""],
                    !.pc = "complete"])
    /\ UNCHANGED << db, versions, usage, messages, edits >>
    /\ routeFrame

\* generation.update of onComplete
UpdateGeneration(r) ==
    /\ reqs[r].pc = "generationUpdate"
    /\ goesOn(r, [reqs[r] EXCEPT
                    !.generation = [status |-> "COMPLETED",
                                    filesChanged |-> reqs[r].filesWithActions,
                                    response |-> reqs[r].fullResponse,
                                    errorMessage |-> ""],
                    !.pc = "assistantMessage"])
    /\ UNCHANGED << db, versions, usage, messages, edits >>
    /\ routeFrame

\* message.create for the response
SaveAssistantMessage(r) ==
    /\ reqs[r].pc = "assistantMessage"
    /\ messages' = messages \cup {[role |-> "ASSISTANT", request |-> r]}
    /\ goesOn(r, [reqs[r] EXCEPT !.pc = "usageCreate"])
    /\ UNCHANGED << db, versions, usage, edits >>
    /\ routeFrame

\* usageRecord.create
RecordUsage(r) ==
    /\ reqs[r].pc = "usageCreate"
    /\ usage' = usage (+) SetToBag({[type |-> "GENERATION", request |-> r]})
    /\ goesOn(r, [reqs[r] EXCEPT !.pc = "projectUpdate"])
    /\ UNCHANGED << db, versions, messages, edits >>
    /\ routeFrame

\* project.update of the timestamp
UpdateProject(r) ==
    /\ reqs[r].pc = "projectUpdate"
    /\ goesOn(r, [reqs[r] EXCEPT !.pc = "complete"])
    /\ UNCHANGED << db, versions, usage, messages, edits >>
    /\ routeFrame

\* the 'complete' event and controller.close
SendComplete(r) ==
    /\ reqs[r].pc = "complete"
    /\ goesOn(r, [reqs[r] EXCEPT
                    !.events = Append(@, sse("complete", <<>>,
                                             reqs[r].filesWithActions)),
                    !.closed = TRUE,
                    !.pc = "done"])
    /\ UNCHANGED << db, versions, usage, messages, edits >>
    /\ routeFrame

\* an onError that sends the event without updating the generation
MarkFailed_NoUpdate(r) ==
    /\ reqs[r].pc = "markFailed"
    /\ goesOn(r, [reqs[r] EXCEPT !.pc = "errorEvent"])
    /\ UNCHANGED << db, versions, usage, messages, edits >>
    /\ routeFrame

\* generation.update of onError
MarkFailed(r) ==
    /\ reqs[r].pc = "markFailed"
    /\ goesOn(r, [reqs[r] EXCEPT
                    !.generation = [@ EXCEPT !.status = "FAILED",
                                             !.errorMessage = "stream failed"],
                    !.pc = "errorEvent"])
    /\ UNCHANGED << db, versions, usage, messages, edits >>
    /\ routeFrame

\* the 'error' event and controller.close
SendError(r) ==
    /\ reqs[r].pc = "errorEvent"
    /\ goesOn(r, [reqs[r] EXCEPT
                    !.events = Append(@, sse("error", <<>>, <<>>)),
                    !.closed = TRUE,
                    !.pc = "done"])
    /\ UNCHANGED << db, versions, usage, messages, edits >>
    /\ routeFrame

\* the awaits of onComplete and onError on the database
HandlerWrites ==
    {"findUnique", "versionCreate", "fileUpdate", "fileCreate",
     "generationUpdate", "assistantMessage", "usageCreate", "projectUpdate",
     "markFailed"}

\* a database call of onComplete or onError rejects: the handler's promise
\* rejects, and nobody awaits or catches it
WriteFails(r) ==
    /\ reqs[r].pc \in HandlerWrites
    /\ goesOn(r, [reqs[r] EXCEPT !.pc = "rejected"])
    /\ UNCHANGED << db, versions, usage, messages, edits >>
    /\ routeFrame

\* call c of a file route goes on with the locals rec
editGoesOn(c, rec) == edits' = [edits EXCEPT ![c] = rec]

\* POST files: findUnique, then update or create
EditPost(c) ==
    /\ edits[c].pc = "findUnique"
    /\ \E path \in {PathB} :
           editGoesOn(c, IF path \in DOMAIN db
                         THEN [pc |-> "versionCreate", kind |-> "POST",
                               path |-> path, existingFile |-> db[path]]
                         ELSE [pc |-> "fileCreate", kind |-> "POST",
                               path |-> path, existingFile |-> NoRow])
    /\ UNCHANGED << db, versions, usage, messages, reqs >>
    /\ routeFrame

\* PUT files/path: findUnique, 404 when there is no such file
EditPut(c) ==
    /\ edits[c].pc = "findUnique"
    /\ \E path \in {PathB} :
           editGoesOn(c, IF path \in DOMAIN db
                         THEN [pc |-> "versionCreate", kind |-> "PUT",
                               path |-> path, existingFile |-> db[path]]
                         ELSE [pc |-> "notFound", kind |-> "PUT",
                               path |-> path, existingFile |-> NoRow])
    /\ UNCHANGED << db, versions, usage, messages, reqs >>
    /\ routeFrame

\* fileVersion.create of the file routes
EditBackup(c) ==
    /\ edits[c].pc = "versionCreate"
    /\ versions' = insertVersion(versions,
                      [path |-> edits[c].path,
                       content |-> edits[c].existingFile.content,
                       version |-> edits[c].existingFile.version,
                       generationId |-> 0])
    /\ editGoesOn(c, [edits[c] EXCEPT !.pc = "fileUpdate"])
    /\ UNCHANGED << db, usage, messages, reqs >>
    /\ routeFrame

\* projectFile.update of the file routes
EditUpdate(c) ==
    /\ edits[c].pc = "fileUpdate"
    /\ db' = withRow(db, edits[c].path,
                     [content |-> EditContent,
                      version |-> edits[c].existingFile.version + 1])
    /\ editGoesOn(c, [edits[c] EXCEPT !.pc = "ok"])
    /\ UNCHANGED << versions, usage, messages, reqs >>
    /\ routeFrame

\* projectFile.create of POST files; a violation of the unique key is caught
\* and answered with status 500
EditCreate(c) ==
    /\ edits[c].pc = "fileCreate"
    /\ IF edits[c].path \in DOMAIN db
       THEN /\ db' = db
            /\ editGoesOn(c, [edits[c] EXCEPT !.pc = "failed"])
       ELSE /\ db' = withRow(db, edits[c].path,
                             [content |-> EditContent, version |-> 1])
            /\ editGoesOn(c, [edits[c] EXCEPT !.pc = "created"])
    /\ UNCHANGED << versions, usage, messages, reqs >>
    /\ routeFrame

NextRoute ==
    \/ \E r \in DOMAIN reqs : ReadProject(r)
    \/ \E r \in DOMAIN reqs : CheckLimit(r)
    \/ \E r \in DOMAIN reqs : SaveUserMessage(r)
    \/ \E r \in DOMAIN reqs : CreateGeneration(r)
    \/ \E r \in DOMAIN reqs : RouteOnToken(r)
    \/ \E r \in DOMAIN reqs : RouteStreamEnds(r)
    \/ \E r \in DOMAIN reqs : RouteStreamFails(r)
    \/ \E r \in DOMAIN reqs : FindExisting(r)
    \/ \E r \in DOMAIN reqs : BackupVersion(r)
    \/ \E r \in DOMAIN reqs : UpdateFile(r)
    \/ \E r \in DOMAIN reqs : CreateFile(r)
    \/ \E r \in DOMAIN reqs : UpdateGeneration(r)
    \/ \E r \in DOMAIN reqs : SaveAssistantMessage(r)
    \/ \E r \in DOMAIN reqs : RecordUsage(r)
    \/ \E r \in DOMAIN reqs : UpdateProject(r)
    \/ \E r \in DOMAIN reqs : SendComplete(r)
    \/ \E r \in DOMAIN reqs : MarkFailed(r)
    \/ \E r \in DOMAIN reqs : SendError(r)
    \/ \E r \in DOMAIN reqs : WriteFails(r)
    \/ \E c \in DOMAIN edits : EditPost(c)
    \/ \E c \in DOMAIN edits : EditPut(c)
    \/ \E c \in DOMAIN edits : EditBackup(c)
    \/ \E c \in DOMAIN edits : EditUpdate(c)
    \/ \E c \in DOMAIN edits : EditCreate(c)

SpecRoute == InitRoute /\ [][NextRoute]_vars

(***************************************************************************)
(* Properties                                                              *)
(***************************************************************************)
\* the provider has built a successful GenerationResult
HasResult == pc \in {"returned", "onComplete", "completed"}

\* C1: parseFileChanges never returns two FileChanges with the same path.
\* (Stated as claimed; the first loop pushes without looking at the files
\* already collected, so two filepath blocks naming one path refute it.)
C1_NoDuplicatePaths ==
    HasResult =>
        \A i, j \in 1..Len(result.files) :
            i # j => result.files[i].path # result.files[j].path

\* what the Path Validator accepts, rule by rule (rules 2 to 5)
NoTraversal(p) == ~\E i \in 1..(Len(p) - 1) : p[i] = "." /\ p[i + 1] = "."
NotAbsolute(p) ==
    /\ ~(Len(p) >= 1 /\ p[1] = "/")
    /\ ~(Len(p) >= 2 /\ p[1] \in (LowerChars \cup UpperChars) /\ p[2] = ":")
WithinLength(p) == Len(p) <= MaxPathLength
AllowedCharsOnly(p) == \A i \in 1..Len(p) : p[i] \in WordChars \cup {"-", ".", "/"}

\* C2: every FileChange parseFileChanges returns, from either pass, has a path
\* with no "..", no leading slash, no drive-letter prefix, at most 200
\* characters, made only of word characters, hyphen, dot and slash.
C2_PathsAccepted ==
    HasResult =>
        \A k \in 1..Len(result.files) :
            LET p == result.files[k].path
            IN  NoTraversal(p) /\ NotAbsolute(p) /\ WithinLength(p)
                               /\ AllowedCharsOnly(p)

\* a response with a block whose path climbs out of the project, parsed to
\* the one file of its second-pass block
C2_Witness ==
    /\ HasResult
    /\ includes(result.response, <<".", ".", "/">>)
    /\ Len(result.files) = 1
    /\ result.files[1].content = <<"y">>

\* C7: the explanation of every successful result, returned by generate or
\* passed to onComplete by generateStream, is extractExplanation(response)
\* followed by the warning suffix when the scanner reports a finding on the
\* extracted content, and extractExplanation(response) alone otherwise.
\* (Stated as claimed; generateStream never calls the scanner.)
C7_WarningAppended ==
    HasResult =>
        LET issues == scanForSecurityIssues(allCodeOf(result.files))
            base == extractExplanation(result.response)
        IN  result.explanation =
                IF Len(issues) > 0
                THEN base \o WarningPrefix \o join(issues, <<",", " ">>)
                ELSE base

\* C9: findings are advisory: the result of a generate whose API call
\* succeeded is successful and carries exactly the file changes parsed from
\* the response, findings or not.
C9_FindingsAdvisory ==
    pc = "returned" =>
        /\ result.success
        /\ result.files = parseFileChanges(responseText)

\* a returned result with file changes on whose content the scanner reports
C9_Witness ==
    /\ pc = "returned"
    /\ Len(result.files) >= 1
    /\ Len(scanForSecurityIssues(allCodeOf(result.files))) >= 1

\* only white space is left of the text once its closed blocks are removed
OnlyBlankOutsideBlocks(text) ==
    LET rest == removeCodeBlocks(text, 1)
    IN  \A i \in 1..Len(rest) : rest[i] \in WhiteSpace

\* C10: extractExplanation returns a non-empty string for every input, and
\* exactly the fallback text when only blank text is left outside code blocks.
C10_ExplanationNonEmpty ==
    pc = "onComplete" =>
        /\ result.explanation # <<>>
        /\ OnlyBlankOutsideBlocks(fullResponse)
               => result.explanation = FallbackExplanation

\* a response made of code blocks and blank text only
C10_Witness ==
    /\ pc = "onComplete"
    /\ includes(fullResponse, Fence)
    /\ includes(fullResponse, <<" ", NL>>)
    /\ OnlyBlankOutsideBlocks(fullResponse)
    /\ result.explanation = FallbackExplanation

\* rule 1 of the Path Validator: a dot-extension of alphanumerics at the end,
\* or one of the extensionless config names in any case
ExtensionOrConfigName(p) ==
    \/ \E k \in 1..(Len(p) - 1) :
           p[k] = "." /\ \A m \in (k + 1)..Len(p) : p[m] \in AlnumChars
    \/ [i \in 1..Len(p) |-> toLowerChar(p[i])]
           \in { [i \in 1..Len(name) |-> toLowerChar(name[i])] :
                   name \in ConfigFileNames }

\* C3: isValidFilePath(p) is true exactly when the five rules hold for p, and
\* false (never an exception) otherwise.
C3_ValidIffRules ==
    called =>
        /\ output \in BOOLEAN
        /\ output <=> /\ ExtensionOrConfigName(input)
                      /\ NoTraversal(input)
                      /\ NotAbsolute(input)
                      /\ WithinLength(input)
                      /\ AllowedCharsOnly(input)

\* a path of exactly the longest length is accepted
C3_Witness ==
    /\ called
    /\ Len(input) = MaxPathLength
    /\ output = TRUE

\* the paths of a list
PathSet(paths) == {paths[j] : j \in 1..Len(paths)}

\* C4: determineFileActions gives each change the action update when its path
\* is an exact member of the existing paths and create otherwise.
C4_ActionByMembership ==
    called =>
        \A k \in 1..Len(input.changes) :
            output[k].action =
                IF input.changes[k].path \in PathSet(input.existingPaths)
                THEN "update" ELSE "create"

\* a change whose path is stored becomes an update whatever action it
\* carried, one whose path differs from a stored path in case only a create
C4_Witness ==
    /\ called
    /\ Len(input.changes) = 2
    /\ input.existingPaths = <<PathA>>
    /\ input.changes[1].path = PathA
    /\ input.changes[1].action = "delete"
    /\ input.changes[2].path = PathUpperA
    /\ input.changes[2].action = "update"
    /\ output[1].action = "update"
    /\ output[2].action = "create"

\* C5: determineFileActions changes nothing but the action: the result has
\* the length and the order of the input and every element keeps its path
\* and its content (the call leaves its arguments as they were).
C5_OnlyActionChanges ==
    called =>
        /\ Len(output) = Len(input.changes)
        /\ \A k \in 1..Len(input.changes) :
               /\ DOMAIN output[k] = DOMAIN input.changes[k]
               /\ output[k].path = input.changes[k].path
               /\ output[k].content = input.changes[k].content

\* two changes with different paths, the first with content, whose actions
\* the call has changed
C5_Witness ==
    /\ called
    /\ Len(output) = 2
    /\ output[1].path # output[2].path
    /\ output[1].content = <<"x">>
    /\ output[1].action # input.changes[1].action
    /\ output[2].action # input.changes[2].action

\* C6: no file change classified by determineFileActions has the action
\* delete, so the delete branch of the chat route is never taken and no chat
\* generation removes a ProjectFile row.
C6_NeverDeletes ==
    [][ /\ deleteCalls' = 0
        /\ \A k \in 1..Len(filesWithActions') :
               filesWithActions'[k].action \in {"create", "update"}
        /\ DOMAIN db \subseteq DOMAIN db' ]_vars

\* a second generation has updated a file the first one created and has
\* classified a change with no content
C6_Witness ==
    /\ pc = "completed"
    /\ nRequests = 2
    /\ Len(versions) >= 1
    /\ \E k \in 1..Len(filesWithActions) : filesWithActions[k].action = "update"
    /\ \E k \in 1..Len(filesWithActions) : filesWithActions[k].content = <<>>

\* the categories in the order of the claim
CategoryNames ==
    << <<"A","P","I"," ","k","e","y">>,
       <<"S","e","c","r","e","t">>,
       <<"P","a","s","s","w","o","r","d">>,
       <<"S","t","r","i","p","e"," ","k","e","y">>,
       <<"A","W","S"," ","a","c","c","e","s","s"," ","k","e","y">>,
       <<"G","i","t","H","u","b"," ","t","o","k","e","n">>,
       <<"B","e","a","r","e","r"," ","t","o","k","e","n">> >>

\* the category a finding mentions (0 when it mentions none)
categoryOf(finding) ==
    LET cs == {c \in 1..Len(CategoryNames) : includes(finding, CategoryNames[c])}
    IN  IF cs = {} THEN 0 ELSE Min(cs)

\* C8: scanForSecurityIssues returns between 0 and 7 findings, at most one for
\* a category however often its pattern matches, in the fixed order of the
\* categories.
C8_OneFindingPerCategory ==
    called =>
        /\ Len(output) <= 7
        /\ \A k \in 1..Len(output) : categoryOf(output[k]) # 0
        /\ \A j, k \in 1..Len(output) :
               j < k => categoryOf(output[j]) < categoryOf(output[k])

\* a text in which every pattern matches, the password pattern at two
\* places, in another order than the categories
C8_Witness ==
    /\ called
    /\ Cardinality({i \in 1..Len(input) : passwordAt(input, i)}) >= 2
    /\ indexOf(input, ScanBearer, 1) = 1
    /\ Len(output) = 7

\* the in-order concatenation of a list of text deltas
RECURSIVE concatenation(_)
concatenation(tokens) ==
    IF tokens = <<>> THEN <<>>
    ELSE Head(tokens) \o concatenation(Tail(tokens))

\* C20: in generateStream and the chat route the extraction pipeline runs
\* exactly once per generation, only after the token stream has ended, on
\* the in-order concatenation of every token delivered through onToken;
\* never on a partial response or when the stream fails; and the response
\* stored on the generation record is that same concatenation.
C20_PipelineOnceOnWholeText ==
    LET text == concatenation(delivered)
        onText == << [fn |-> "parseFileChanges", on |-> text],
                     [fn |-> "extractExplanation", on |-> text] >>
    IN  /\ pc \in {"idle", "streaming", "onError", "failed"} => invoked = <<>>
        /\ pc \in {"streaming", "onError", "failed"} => generation.response = <<>>
        /\ pc = "onComplete" => invoked = onText /\ result.response = text
        /\ pc = "completed" =>
               /\ invoked = Append(onText, [fn |-> "determineFileActions",
                                            on |-> result.files])
               /\ result.response = text
               /\ generation.status = "COMPLETED"
               /\ generation.response = text

\* a second generation has completed on a response that was delivered in
\* two deltas and holds a file change
C20_Witness ==
    /\ pc = "completed"
    /\ nRequests = 2
    /\ Len(delivered) = 2
    /\ Len(invoked) = 3
    /\ generation.response = delivered[1] \o delivered[2]
    /\ Len(result.files) >= 1

(***************************************************************************)
(* Properties of one invocation                                            *)
(***************************************************************************)
\* the invocation has returned from fn
Returned(c, fn) == calls[c].fn = fn /\ calls[c].phase = "returned"

\* the fences of a text, read from the left, none overlapping the one before
RECURSIVE fencesOf(_, _)
fencesOf(s, from) ==
    LET f == indexOf(s, Fence, from)
    IN  IF f = 0 THEN <<>> ELSE <<f>> \o fencesOf(s, f + 3)

\* position p lies in a closed fenced block: between an opening fence (the
\* first, third, ... fence) and the closing fence that follows it, fences
\* included
inClosedBlock(s, p) ==
    LET f == fencesOf(s, 1)
    IN  \E j \in 1..(Len(f) \div 2) : f[2 * j - 1] <= p /\ p <= f[2 * j] + 2

\* the text outside the closed fenced blocks
textOutsideBlocks(s) ==
    LET keep == SelectSeq([p \in 1..Len(s) |-> p],
                          LAMBDA p : ~inClosedBlock(s, p))
    IN  [n \in 1..Len(keep) |-> s[keep[n]]]

isBlank(line) == \A i \in 1..Len(line) : line[i] \in WhiteSpace

\* a line without its leading, or its trailing, white space
trimStart(line) ==
    IF isBlank(line) THEN <<>>
    ELSE SubSeq(line, Min({i \in 1..Len(line) : line[i] \notin WhiteSpace}),
                Len(line))
trimEnd(line) ==
    IF isBlank(line) THEN <<>>
    ELSE SubSeq(line, 1, Max({i \in 1..Len(line) : line[i] \notin WhiteSpace}))

\* the lines of a text that are not blank, in their order, the first without
\* its leading and the last without its trailing white space
explanationLines(text) ==
    LET kept == SelectSeq(split(text), LAMBDA line : ~isBlank(line))
    IN  [n \in 1..Len(kept) |->
            LET a == IF n = 1 THEN trimStart(kept[n]) ELSE kept[n]
            IN  IF n = Len(kept) THEN trimEnd(a) ELSE a]

\* the text whose lines are these: the empty text for no line
hasLines(text, lines) ==
    IF lines = <<>> THEN text = <<>> ELSE split(text) = lines

\* C11 as claimed: for every response extractExplanation returns the text
\* outside the closed fenced blocks with every blank line removed, the lines
\* in their order joined by a newline and the whole trimmed.  (The fallback
\* text is returned instead when no line is left, as for the empty response.)
C11_ReturnsOutsideText ==
    \A c \in DOMAIN calls :
        Returned(c, "extractExplanation") =>
            hasLines(calls[c].ret, explanationLines(textOutsideBlocks(calls[c].arg)))

\* C11, amended: extractExplanation returns the text outside the closed
\* fenced blocks with every blank line removed, the remaining lines in their
\* order joined by a newline and the whole trimmed, and the fallback text
\* when no line remains; what it returns has no blank line.
C11_OutsideTextOrFallback ==
    \A c \in DOMAIN calls :
        Returned(c, "extractExplanation") =>
            LET lines == explanationLines(textOutsideBlocks(calls[c].arg))
            IN  /\ lines # <<>> => split(calls[c].ret) = lines
                /\ lines = <<>> => calls[c].ret = FallbackExplanation
                /\ \A n \in 1..Len(split(calls[c].ret)) :
                       ~isBlank(split(calls[c].ret)[n])

\* the explanation of a response with two closed blocks and prose before,
\* between and after them
C11_Witness ==
    \E c \in DOMAIN calls :
        /\ Returned(c, "extractExplanation")
        /\ Len(fencesOf(calls[c].arg, 1)) = 4
        /\ ~inClosedBlock(calls[c].arg, 1)
        /\ \E p \in 1..Len(calls[c].arg) :
               /\ fencesOf(calls[c].arg, 1)[2] + 2 < p
               /\ p < fencesOf(calls[c].arg, 1)[3]
               /\ calls[c].arg[p] \notin WhiteSpace
        /\ Len(split(calls[c].ret)) = 2

\* C16: extractExplanation matches an opening fence up to the next closing
\* fence or, when the block does not close, up to the end of the string: for
\* a response whose last fenced block is never closed the explanation
\* contains none of the text from that opening fence onward.  (Stated as
\* claimed; the expression of the source needs a closing fence to match, so
\* the text of an unclosed block stays in the explanation.)
C16_UnclosedBlockRemoved ==
    \A c \in DOMAIN calls :
        Returned(c, "extractExplanation") =>
            LET f == fencesOf(calls[c].arg, 1)
                before == SubSeq(calls[c].arg, 1, f[Len(f)] - 1)
                lines == explanationLines(textOutsideBlocks(before))
            IN  Len(f) % 2 = 1 =>
                    /\ lines # <<>> => split(calls[c].ret) = lines
                    /\ lines = <<>> => calls[c].ret = FallbackExplanation

\* the entries of a log that belong to one pass
ofPass(log, pass) == SelectSeq(log, LAMBDA entry : entry.pass = pass)

\* the entries stand in the order of the text
inTextOrder(log) ==
    \A i, j \in 1..Len(log) : i < j => log[i].index < log[j].index

\* the change each pass makes of the block it matched at position i, taken
\* alone: a list of one FileChange, or none
pass1Change(s, i) == firstLoopBody(<<>>, codeBlockAt(s, i))
pass2Change(s, i) == secondLoopBody(<<>>, simpleBlockAt(s, i))

\* the changes a pass makes of the blocks of its entries, in their order
changesOf(s, entries, pass) ==
    concatenation([j \in 1..Len(entries) |->
                      IF pass = 1 THEN pass1Change(s, entries[j].index)
                      ELSE pass2Change(s, entries[j].index)])

pathsIn(files) == {files[k].path : k \in 1..Len(files)}

\* a is b with some of its elements left out
RECURSIVE isSubsequence(_, _)
isSubsequence(a, b) ==
    IF a = <<>> THEN TRUE
    ELSE IF b = <<>> THEN FALSE
    ELSE IF Head(a) = Head(b) THEN isSubsequence(Tail(a), Tail(b))
    ELSE isSubsequence(a, Tail(b))

\* C12: the list parseFileChanges returns is all Pass 1 changes in the order
\* of their blocks in the text, followed by the Pass 2 changes in text
\* order; a path matched by both passes is in the list with the Pass 1
\* FileChange and the content of the Pass 1 block only.
C12_PassOneThenPassTwo ==
    \A c \in DOMAIN calls :
        Returned(c, "parseFileChanges") =>
            LET s == calls[c].arg
                ret == calls[c].ret
                first == ofPass(calls[c].log, 1)
                second == ofPass(calls[c].log, 2)
                p1 == changesOf(s, first, 1)
                p2 == changesOf(s, second, 2)
                rest == SubSeq(ret, Len(p1) + 1, Len(ret))
            IN  /\ calls[c].log = first \o second
                /\ inTextOrder(first) /\ inTextOrder(second)
                /\ ret = p1 \o rest
                /\ isSubsequence(rest, p2)
                /\ \A k \in 1..Len(rest) : rest[k].path \notin pathsIn(p1)
                /\ \A k \in 1..Len(p2) :
                       p2[k].path \notin pathsIn(p1) =>
                           \E m \in 1..Len(rest) :
                               /\ rest[m].path = p2[k].path
                               /\ \A j \in 1..(k - 1) :
                                      p2[j].path = p2[k].path => rest[m] = p2[j]
                               /\ (\A j \in 1..(k - 1) : p2[j].path # p2[k].path)
                                      => rest[m] = p2[k]
                /\ \A k, m \in 1..Len(rest) :
                       k # m => rest[k].path # rest[m].path

\* a path that a tagged block names after a language-tagged block has named
\* it: the one change returned has the content of the tagged block
C12_Witness ==
    \E c \in DOMAIN calls :
        /\ Returned(c, "parseFileChanges")
        /\ Len(calls[c].ret) = 1
        /\ calls[c].ret[1].content = <<"x">>
        /\ \E i, j \in 1..Len(calls[c].log) :
               /\ calls[c].log[i].pass = 1
               /\ calls[c].log[j].pass = 2
               /\ calls[c].log[j].index < calls[c].log[i].index
               /\ pass2Change(calls[c].arg, calls[c].log[j].index) # <<>>
               /\ pass1Change(calls[c].arg, calls[c].log[i].index) # <<>>

(***************************************************************************)
(* The fenced blocks of a text as a reader sees them                       *)
(***************************************************************************)
\* the position of the newline that ends the header line of a fence at i
headerEnd(s, i) == indexOf(s, <<NL>>, i + 3)

\* the header line of a fence at i: what follows the fence up to the newline
headerLine(s, i) == SubSeq(s, i + 3, headerEnd(s, i) - 1)

\* an opening fence: a fence followed by a header line that is not blank
\* and holds no backquote
opensBlock(s, i) ==
    /\ startsWithAt(s, i, Fence)
    /\ headerEnd(s, i) > i + 3
    /\ trim(headerLine(s, i)) # <<>>
    /\ \A k \in 1..Len(headerLine(s, i)) : headerLine(s, i)[k] # BT

\* a closing fence: a fence with nothing but white space after it on its line
closesBlock(s, j) ==
    /\ startsWithAt(s, j, Fence)
    /\ LET nl == indexOf(s, <<NL>>, j + 3)
           last == IF nl = 0 THEN Len(s) ELSE nl - 1
       IN  trim(SubSeq(s, j + 3, last)) = <<>>

\* the first fence after the header line of the fence at i (0 for none)
nextFence(s, i) == indexOf(s, Fence, headerEnd(s, i) + 1)

\* a closed block: an opening fence whose next fence is a closing fence
closedBlockAt(s, i) ==
    /\ opensBlock(s, i)
    /\ nextFence(s, i) # 0
    /\ closesBlock(s, nextFence(s, i))

\* an opening fence with no closing fence of its own: no fence follows, or
\* the next fence opens another block
unclosedBlockAt(s, i) ==
    /\ opensBlock(s, i)
    /\ nextFence(s, i) = 0 \/ opensBlock(s, nextFence(s, i))

\* the body of the closed block at i
blockBody(s, i) == SubSeq(s, headerEnd(s, i) + 1, nextFence(s, i) - 1)

withoutTag(text) ==
    IF startsWith(text, FilepathTag)
    THEN SubSeq(text, Len(FilepathTag) + 1, Len(text)) ELSE text

\* the header of a block: its header line after the optional tag, trimmed
headerOf(line) ==
    trim(IF Len(line) > Len(FilepathTag) THEN withoutTag(line) ELSE line)

\* the path a header names: the header without a filepath: prefix, trimmed
pathOfHeader(line) == trim(withoutTag(headerOf(line)))

lowerCase(text) == [k \in 1..Len(text) |-> toLowerChar(text[k])]

\* what the Path Validator accepts, by its five rules
AcceptedPath(p) ==
    /\ ExtensionOrConfigName(p)
    /\ NoTraversal(p)
    /\ NotAbsolute(p)
    /\ WithinLength(p)
    /\ AllowedCharsOnly(p)

\* the headers Pass 1 rejects
RejectedHeader(line) ==
    LET header == headerOf(line)
        path == pathOfHeader(line)
    IN  \/ path = <<>>
        \/ (\E k \in 1..Len(header) : header[k] = " ")
               /\ ~startsWith(header, FilepathTag)
        \/ lowerCase(path) \in {lowerCase(name) : name \in LanguageNames}
        \/ \A k \in 1..Len(path) : path[k] \notin {".", "/"}
        \/ ~AcceptedPath(path)

\* entry j of a log added a FileChange
pushed(log, j) == log[j].n > (IF j = 1 THEN 0 ELSE log[j - 1].n)

\* C13: in Pass 1 a fenced block produces no FileChange when its header line,
\* trimmed and without a filepath: prefix, is empty, holds a space without
\* the prefix, is a language token in any case, has neither dot nor slash,
\* or fails the Path Validator; every other closed block produces exactly
\* one FileChange with that header as its path.  (Stated as claimed, for the
\* closed blocks of the text; a closed block that follows an unclosed one is
\* never matched, see C15.)
C13_HeaderRules ==
    \A c \in DOMAIN calls :
        Returned(c, "parseFileChanges") =>
            LET s == calls[c].arg
                log == calls[c].log
                made(i) == {j \in 1..Len(log) :
                              log[j].pass = 1 /\ log[j].index = i /\ pushed(log, j)}
            IN  \A i \in 1..Len(s) :
                    closedBlockAt(s, i) =>
                        IF RejectedHeader(headerLine(s, i)) THEN made(i) = {}
                        ELSE /\ Cardinality(made(i)) = 1
                             /\ \A j \in made(i) :
                                    calls[c].ret[log[j].n].path
                                        = pathOfHeader(headerLine(s, i))

\* what does hold of Pass 1: every block its scan matches is treated by the
\* rules of C13, in every state of the scan
Pass1RulesByMatch ==
    \A c \in DOMAIN calls :
        LET s == calls[c].arg
            log == calls[c].log
        IN  \A j \in 1..Len(log) :
                log[j].pass = 1 =>
                    LET line == headerLine(s, log[j].index)
                    IN  IF RejectedHeader(line) THEN ~pushed(log, j)
                        ELSE /\ pushed(log, j)
                             /\ calls[c].files[log[j].n].path = pathOfHeader(line)

\* C15: a fenced block whose opening fence has no closing fence of its own
\* is skipped by parseFileChanges: it yields no FileChange, and every
\* well-formed filepath block elsewhere in the response, before or after it,
\* still yields its own FileChange with its own body.  (Stated as claimed;
\* the scan closes an unclosed block with the opening fence of the next.)
C15_UnclosedBlockSkipped ==
    \A c \in DOMAIN calls :
        Returned(c, "parseFileChanges") =>
            LET s == calls[c].arg
                log == calls[c].log
                ret == calls[c].ret
            IN  \A i \in 1..Len(s) :
                    /\ unclosedBlockAt(s, i) =>
                           \A j \in 1..Len(log) :
                               log[j].index = i => ~pushed(log, j)
                    /\ ( /\ closedBlockAt(s, i)
                         /\ startsWith(headerLine(s, i), FilepathTag)
                         /\ ~RejectedHeader(headerLine(s, i)) ) =>
                           \E k \in 1..Len(ret) :
                               ret[k] = FileChange(pathOfHeader(headerLine(s, i)),
                                                   "create", trim(blockBody(s, i)))

\* C13 does hold of every text that has no unclosed block
HeaderRulesWhenAllClosed ==
    \A c \in DOMAIN calls :
        (\E i \in 1..Len(calls[c].arg) : unclosedBlockAt(calls[c].arg, i)) \/ C13_HeaderRules

\* a dot-extension in the Path Validator's sense at the end of p
EndsInExtension(p) ==
    \E k \in 1..(Len(p) - 1) :
        p[k] = "." /\ \A m \in (k + 1)..Len(p) : p[m] \in AlnumChars

\* the newline that ends the first body line of the block at i (0 for none)
firstLineEnd(s, i) == indexOf(s, <<NL>>, headerEnd(s, i) + 1)

firstBodyLine(s, i) == SubSeq(s, headerEnd(s, i) + 1, firstLineEnd(s, i) - 1)

\* the body of the block at i without its first line
restOfBody(s, i) == SubSeq(s, firstLineEnd(s, i) + 1, nextFence(s, i) - 1)

\* the paths a body line can name: the line, or the line after a leading //
pathsOfLine(line) ==
    {trim(line)} \cup
        (IF startsWith(line, <<"/", "/">>)
         THEN {trim(SubSeq(line, 3, Len(line)))} ELSE {})

\* a closed block whose header is a language tag word and whose body has a
\* first line
simpleBlockShapeAt(s, i) ==
    /\ closedBlockAt(s, i)
    /\ \A k \in 1..Len(headerLine(s, i)) : headerLine(s, i)[k] \in WordChars
    /\ firstLineEnd(s, i) # 0
    /\ firstLineEnd(s, i) < nextFence(s, i)

\* the block at i, naming path p, is taken by Pass 2 of invocation c: one
\* match starts at its fence, and it adds FileChange(p, create, rest of the
\* body trimmed) unless p was already produced
takenByPassTwo(c, i, p) ==
    LET s == calls[c].arg
        log == calls[c].log
        ret == calls[c].ret
    IN  \E j \in 1..Len(log) :
            /\ log[j].pass = 2
            /\ log[j].index = i
            /\ LET before == IF j = 1 THEN 0 ELSE log[j - 1].n
               IN  IF \E k \in 1..before : ret[k].path = p THEN ~pushed(log, j)
                   ELSE /\ pushed(log, j)
                        /\ ret[log[j].n]
                              = FileChange(p, "create", trim(restOfBody(s, i)))

\* C14: in Pass 2 a closed fenced block whose opening fence is followed by a
\* language tag word and a newline, and whose first body line (optionally
\* after // and white space) ends in a dot-extension of one or more
\* alphanumeric characters and passes the Path Validator, yields, when that
\* path was not already produced, a FileChange whose path is that line and
\* whose content is the trimmed rest of the body.  (Stated as claimed;
\* simpleBlockRegex takes lower-case letters only as the extension.)
C14_SimpleBlockYieldsChange ==
    \A c \in DOMAIN calls :
        Returned(c, "parseFileChanges") =>
            \A i \in 1..Len(calls[c].arg) :
                simpleBlockShapeAt(calls[c].arg, i) =>
                    \A p \in pathsOfLine(firstBodyLine(calls[c].arg, i)) :
                        (EndsInExtension(p) /\ AcceptedPath(p)) =>
                            takenByPassTwo(c, i, p)

\* what does hold of Pass 2: the same for a line that has, after the optional
\* //, at least one character before a final dot followed by lower-case
\* letters only, in a text without an unclosed block
SimpleBlocksWithLowerCaseExtension ==
    \A c \in DOMAIN calls :
        ( /\ Returned(c, "parseFileChanges")
          /\ \A i \in 1..Len(calls[c].arg) : ~unclosedBlockAt(calls[c].arg, i) ) =>
            \A i \in 1..Len(calls[c].arg) :
                simpleBlockShapeAt(calls[c].arg, i) =>
                    LET line == firstBodyLine(calls[c].arg, i)
                        named == {line} \cup
                                   (IF startsWith(line, <<"/", "/">>)
                                    THEN {SubSeq(line, 3, Len(line))} ELSE {})
                    IN  \A q \in named :
                            ( /\ \E k \in 2..(Len(q) - 1) :
                                     /\ q[k] = "."
                                     /\ \A m \in (k + 1)..Len(q) : q[m] \in LowerChars
                              /\ AcceptedPath(trim(q)) ) =>
                                takenByPassTwo(c, i, trim(q))

\* the text that holds one filepath block per file of files, each block
\* followed by sep
RECURSIVE serialize(_, _)
serialize(files, sep) ==
    IF files = <<>> THEN <<>>
    ELSE Fence \o FilepathTag \o Head(files).path \o <<NL>>
           \o Head(files).content \o <<NL>> \o Fence \o sep
           \o serialize(Tail(files), sep)

\* C17: round trip: with F = parseFileChanges(response), the text that holds
\* each element of F as an opening fence, filepath: and its path, a newline,
\* its content, a newline and a closing fence parses to FileChanges with the
\* same paths in the same order and the same content per file (with the
\* blocks on lines of their own or written one directly after the other),
\* and trimming an extracted content again leaves it unchanged.
C17_RoundTrip ==
    \A c \in DOMAIN calls :
        Returned(c, "parseFileChanges") =>
            LET F == calls[c].ret
            IN  /\ \A sep \in {<<>>, <<NL>>} :
                       LET G == parseFileChanges(serialize(F, sep))
                       IN  /\ Len(G) = Len(F)
                           /\ \A k \in 1..Len(F) :
                                  /\ G[k].path = F[k].path
                                  /\ G[k].content = F[k].content
                /\ \A k \in 1..Len(F) : trim(F[k].content) = F[k].content

\* C17 witness: an invocation has returned two files, one from each pass,
\* the first with content that was trimmed on extraction
C17_Witness ==
    \E c \in DOMAIN calls :
        /\ Returned(c, "parseFileChanges")
        /\ Len(calls[c].ret) = 2
        /\ \E j \in 1..Len(calls[c].log) :
               calls[c].log[j].pass = 2 /\ pushed(calls[c].log, j)
        /\ calls[c].ret[1].content # <<>>
        /\ \E j \in 1..Len(calls[c].log) :
               /\ calls[c].log[j].pass = 1 /\ calls[c].log[j].n = 1
               /\ codeBlockAt(calls[c].arg, calls[c].log[j].index).g2
                      # calls[c].ret[1].content

\* what function fn returns when it is run alone on arg
alone(fn, arg) ==
    CASE fn = "parseFileChanges" -> parseFileChanges(arg)
      [] fn = "extractExplanation" -> extractExplanation(arg)
      [] fn = "scanForSecurityIssues" -> scanForSecurityIssues(arg)
      [] fn = "determineFileActions" ->
             determineFileActions(arg.changes, arg.existingPaths)

\* C18: the four functions keep no state between or across invocations: for
\* any interleaving of overlapping invocations and any history of earlier
\* calls, each invocation returns exactly what it returns when run alone on
\* the same input.
C18_ReturnsAsWhenAlone ==
    \A c \in DOMAIN calls :
        calls[c].phase = "returned" => calls[c].ret = alone(calls[c].fn, calls[c].arg)

\* C18 witness: a parseFileChanges that found a file has returned after
\* another parseFileChanges, invoked later, had begun its scan and before
\* that one returned
C18_Witness ==
    \E c, d \in DOMAIN calls :
        /\ c < d
        /\ Returned(c, "parseFileChanges")
        /\ calls[c].ret # <<>>
        /\ calls[d].fn = "parseFileChanges"
        /\ calls[d].phase \in {"first", "second"}
        /\ calls[d].log # <<>>

\* the steps invocation c can still take at most: the loops that are left
\* and what is left of the text for the scan of the loop it is in
stepsLeft(c) ==
    LET length == Len(calls[c].arg)
        unread == length + 1 - regexes[regexOf(c)]
    IN  CASE calls[c].phase = "returned" -> 0
          [] calls[c].phase = "second" -> 1 + unread
          [] calls[c].phase = "first" -> length + 2 + unread
          [] calls[c].phase = "scanning" -> Len(PatternNames) + 2 - calls[c].k
          [] calls[c].phase = "called" ->
                 IF calls[c].fn = "parseFileChanges" THEN 2 * length + 4
                 ELSE IF calls[c].fn = "scanForSecurityIssues"
                 THEN Len(PatternNames) + 2
                 ELSE 1

\* C19: every pipeline function terminates on every input, the empty string
\* and strings with unbalanced fences included: each iteration of the two
\* scanning loops of parseFileChanges consumes a non-empty match and
\* strictly advances the scan position, which stays within the text; the
\* scanner loop moves on by one category in every iteration and runs once
\* per category; every step of an invocation lowers the number of steps it
\* can still take, which is never negative; and an invocation that has
\* returned does nothing more.
C19_Terminates ==
    [][\A c \in DOMAIN calls :
          /\ Len(calls'[c].log) > Len(calls[c].log) =>
                 LET e == calls'[c].log[Len(calls'[c].log)]
                 IN  /\ e.lastIndex > e.index
                     /\ e.index >= regexes[regexOf(c)]
                     /\ regexes'[regexOf(c)] = e.lastIndex
                     /\ e.lastIndex > regexes[regexOf(c)]
                     /\ e.lastIndex <= Len(calls[c].arg) + 1
          /\ calls'[c].k # calls[c].k =>
                 /\ calls'[c].k = calls[c].k + 1
                 /\ calls'[c].k <= Len(PatternNames) + 1
          /\ calls'[c].phase = "returned" /\ calls[c].fn = "scanForSecurityIssues" =>
                 calls'[c].k = Len(PatternNames) + 1
          /\ calls'[c] # calls[c] =>
                 /\ stepsLeft(c)' < stepsLeft(c)
                 /\ stepsLeft(c)' >= 0
          /\ calls[c].phase = "returned" => calls'[c] = calls[c]]_vars

\* C19 witness: an invocation of parseFileChanges on a response with an
\* unclosed block, one on the empty response and a scan of all the
\* categories have returned
C19_Witness ==
    /\ \E c \in DOMAIN calls :
           /\ calls[c].phase = "returned"
           /\ \/ /\ calls[c].fn = "parseFileChanges"
                 /\ \E i \in 1..Len(calls[c].arg) : unclosedBlockAt(calls[c].arg, i)
                 /\ calls[c].log # <<>>
              \/ /\ calls[c].fn = "scanForSecurityIssues"
                 /\ calls[c].k = Len(PatternNames) + 1
                 /\ calls[c].ret # <<>>
    /\ \E c \in DOMAIN calls :
           /\ calls[c].phase = "returned"
           /\ calls[c].fn \in {"parseFileChanges", "extractExplanation"}
           /\ calls[c].arg = <<>>

upperCase(text) == [k \in 1..Len(text) |-> toUpperChar(text[k])]

\* the findings mention category c
mentions(findings, c) ==
    \E k \in 1..Len(findings) : includes(findings[k], CategoryNames[c])

\* the prefixes of a Stripe key the claim names
StripePrefixes ==
    { <<"s","k","-","l","i","v","e","-">>, <<"s","k","_","l","i","v","e","_">>,
      <<"s","k","-","t","e","s","t","-">>, <<"s","k","_","t","e","s","t","_">> }

\* the tokens of a text that begin with one of the prefixes followed by
\* alphanumerics, as pairs of prefix and what follows it
stripeTokensOf(text) ==
    { <<at[2], SubSeq(text, at[1] + Len(at[2]),
                      at[1] + Len(at[2])
                          + runLen(text, at[1] + Len(at[2]), AlnumChars) - 1)>> :
        at \in {q \in (1..Len(text)) \X StripePrefixes :
                  /\ startsWithAt(text, q[1], q[2])
                  /\ runLen(text, q[1] + Len(q[2]), AlnumChars) >= 1} }

\* C22: scanForSecurityIssues matches API key, Secret and Password in any
\* case (the finding is the same for the text in upper and in lower case) and
\* Stripe key, AWS access key and GitHub token in the case of their prefix
\* only (no Stripe or GitHub finding for a text in upper case, no AWS finding
\* for a text in lower case); a text containing a token that begins sk-live-,
\* sk_live_, sk-test- or sk_test_ followed by alphanumerics yields a finding
\* mentioning Stripe key, and the same token with its prefix in upper case
\* does not.
C22_CaseOfCategories ==
    called =>
        LET upper == scanForSecurityIssues(upperCase(input))
            lower == scanForSecurityIssues(lowerCase(input))
        IN  /\ \A c \in 1..3 :
                   /\ mentions(output, c) <=> mentions(upper, c)
                   /\ mentions(output, c) <=> mentions(lower, c)
            /\ ~mentions(upper, 4)
            /\ ~mentions(lower, 5)
            /\ ~mentions(upper, 6)
            /\ \A token \in stripeTokensOf(input) :
                   /\ mentions(output, 4)
                   /\ ~mentions(scanForSecurityIssues(upperCase(token[1]) \o token[2]), 4)

\* C22 witness: a text given in mixed case has a Password and a Stripe
\* finding, and its Stripe token does not begin sk_test_
C22_Witness ==
    /\ called
    /\ mentions(output, 3)
    /\ input # lowerCase(input)
    /\ \E token \in stripeTokensOf(input) :
           token[1] # <<"s","k","_","t","e","s","t","_">>

\* the extensionless config names that hold no dot
NamesWithoutDot ==
    { <<"D","o","c","k","e","r","f","i","l","e">>,
      <<"M","a","k","e","f","i","l","e">>,
      <<"R","E","A","D","M","E">> }

\* C23: parseFileChanges never holds or returns a FileChange whose path
\* contains neither a dot nor a slash; a block headed filepath:Dockerfile,
\* filepath:Makefile or filepath:README yields no FileChange in either pass,
\* although isValidFilePath accepts each of those names.
C23_NoPathWithoutDotOrSlash ==
    /\ \A name \in NamesWithoutDot : isValidFilePath(name)
    /\ \A c \in DOMAIN calls :
           calls[c].fn = "parseFileChanges" =>
               LET s == calls[c].arg
                   log == calls[c].log
                   files == calls[c].files
               IN  /\ \A k \in 1..Len(files) :
                          \E n \in 1..Len(files[k].path) :
                              files[k].path[n] \in {".", "/"}
                   /\ calls[c].phase = "returned" => calls[c].ret = files
                   /\ \A i \in 1..Len(s) :
                          ( /\ closedBlockAt(s, i)
                            /\ \E name \in NamesWithoutDot :
                                   headerLine(s, i) = FilepathTag \o name ) =>
                              /\ \A j \in 1..Len(log) :
                                     log[j].index = i => ~pushed(log, j)
                              /\ \A k \in 1..Len(files) :
                                     files[k].path \notin NamesWithoutDot

\* C23 witness: parseFileChanges has returned from a response with blocks
\* headed by the three names, each matched by the first loop
C23_Witness ==
    \E c \in DOMAIN calls :
        /\ Returned(c, "parseFileChanges")
        /\ \A name \in NamesWithoutDot :
               \E j \in 1..Len(calls[c].log) :
                   /\ calls[c].log[j].pass = 1
                   /\ closedBlockAt(calls[c].arg, calls[c].log[j].index)
                   /\ headerLine(calls[c].arg, calls[c].log[j].index)
                          = FilepathTag \o name

\* the positions of the terminal signals among the callbacks invoked
terminalSignals ==
    {k \in 1..Len(signals) : signals[k].fn \in {"onComplete", "onError"}}

\* C21: every generateStream call delivers zero or more token signals
\* followed by exactly one terminal signal: exactly one of onComplete and
\* onError is invoked, exactly once, never both, and no onToken is invoked
\* after the terminal signal, whatever the callbacks do, a callback that
\* throws included.  (Stated as claimed; an onComplete that throws is
\* followed by onError.)
C21_OneTerminalSignal ==
    /\ Cardinality(terminalSignals) <= 1
    /\ \A k \in terminalSignals : k = Len(signals)
    /\ pc \in {"returned", "thrown"} => Cardinality(terminalSignals) = 1

\* what does hold: onError is invoked at most once and last, onComplete at
\* most once, and a call that has ended has invoked one of them
TerminalSignalsAsBuilt ==
    /\ \A k \in 1..Len(signals) : signals[k].fn = "onError" => k = Len(signals)
    /\ Cardinality({k \in 1..Len(signals) : signals[k].fn = "onComplete"}) <= 1
    /\ \A k \in 1..Len(signals) :
           signals[k].fn = "onToken" =>
               \A j \in terminalSignals : k < j
    /\ pc \in {"returned", "thrown"} => terminalSignals # {}

\* the indices of the changes of request r whose content is empty
emptyChanges(r) ==
    {j \in 1..Len(reqs[r].filesWithActions) :
        reqs[r].filesWithActions[j].content = <<>>}

\* the steps of onComplete that act on the change at index k
LoopSteps == {"findUnique", "versionCreate", "fileUpdate", "fileCreate"}

\* C24: a FileChange whose content is empty after trimming is returned by
\* parseFileChanges, has the action create or update, and is listed in the
\* 'complete' event and in the generation's filesChanged, but the chat route
\* looks up, creates, updates and versions no ProjectFile row for it.
C24_EmptyContentListedNotStored ==
    \A r \in DOMAIN reqs :
        LET changes == reqs[r].filesWithActions
            parsed == parseFileChanges(reqs[r].fullResponse)
        IN  \A j \in emptyChanges(r) :
               /\ Len(parsed) = Len(changes)
               /\ parsed[j].path = changes[j].path
               /\ parsed[j].content = <<>>
               /\ changes[j].action \in {"create", "update"}
               /\ \A i \in 1..Len(reqs[r].ops) : reqs[r].ops[i].k # j
               /\ reqs[r].pc \in LoopSteps => reqs[r].k # j
               /\ reqs[r].generation.status = "COMPLETED" =>
                      reqs[r].generation.filesChanged[j] = changes[j]
               /\ \A i \in 1..Len(reqs[r].events) :
                      reqs[r].events[i].type = "complete" =>
                          reqs[r].events[i].files[j] = changes[j]

\* a request whose only change has empty content has sent its 'complete'
\* event, and the project has no file
C24_Witness ==
    \E r \in DOMAIN reqs :
        /\ reqs[r].pc = "done"
        /\ ~reqs[r].failed
        /\ emptyChanges(r) = {1}
        /\ reqs[r].generation.status = "COMPLETED"
        /\ db = NoFiles

\* C25: for every file change the chat route persists, the action reported
\* to the client and stored in filesChanged agrees with the database
\* operation performed: update exactly when an existing row was backed up
\* and updated, create exactly when a new row was inserted, also when a
\* response names a path twice and when the project's files change between
\* the initial read and the persistence.  (Stated as claimed; the action is
\* decided from the paths read when the request started.)
C25_ActionAgreesWithOperation ==
    \A r \in DOMAIN reqs :
        \A i \in 1..Len(reqs[r].ops) :
            reqs[r].ops[i].op \in {"create", "update"} =>
                reqs[r].filesWithActions[reqs[r].ops[i].k].action = reqs[r].ops[i].op

\* C26: for a user whose monthly generation limit is finite, the number of
\* GENERATION usage records with the current month's periodStart never
\* exceeds the limit, under any interleaving of concurrent chat requests.
\* (Stated as claimed; the count is read before streaming and the record is
\* written when the generation completes.)
C26_UsageWithinLimit ==
    MonthlyLimit # -1 => BagCardinality(usage) <= MonthlyLimit

\* what the check at the start does ensure: a request is let through only
\* while the records are fewer than the limit
AdmittedBelowLimit ==
    [][\A r \in DOMAIN reqs :
          (reqs[r].pc = "count" /\ reqs'[r].pc = "userMessage")
              => BagCardinality(usage) < MonthlyLimit]_vars

\* the events of the given type that request r has sent
eventsOf(r, type) ==
    {i \in 1..Len(reqs[r].events) : reqs[r].events[i].type = type}

\* C27: when the AI stream fails before completing, the chat route marks the
\* generation FAILED with the error message, sends one 'error' event and
\* closes the stream, and leaves everything else unchanged: it creates,
\* updates and deletes no ProjectFile or FileVersion row, stores no assistant
\* message and writes no usage record, while the user message saved before
\* streaming remains.
C27_StreamFailure ==
    /\ [](\A r \in DOMAIN reqs :
            reqs[r].failed =>
               /\ reqs[r].ops = <<>>
               /\ reqs[r].filesWithActions = <<>>
               /\ \A i \in 1..Len(versions) : versions[i].generationId # r
               /\ [role |-> "ASSISTANT", request |-> r] \notin messages
               /\ [role |-> "USER", request |-> r] \in messages
               /\ ~BagIn([type |-> "GENERATION", request |-> r], usage)
               /\ eventsOf(r, "complete") = {}
               /\ reqs[r].pc = "markFailed" =>
                      /\ reqs[r].generation.status = "IN_PROGRESS"
                      /\ eventsOf(r, "error") = {}
                      /\ ~reqs[r].closed
               /\ reqs[r].pc = "errorEvent" =>
                      /\ reqs[r].generation.status = "FAILED"
                      /\ eventsOf(r, "error") = {}
                      /\ ~reqs[r].closed
               /\ reqs[r].pc = "done" =>
                      /\ reqs[r].generation.status = "FAILED"
                      /\ reqs[r].generation.errorMessage # ""
                      /\ eventsOf(r, "error") = {Len(reqs[r].events)}
                      /\ reqs[r].closed)
    /\ [][\A r \in DOMAIN reqs :
            (reqs[r].failed /\ reqs'[r] # reqs[r]) =>
                UNCHANGED << db, versions, usage, messages >>]_vars

\* a request whose stream failed after a delta has ended, while another
\* request has stored the file and its records
C27_Witness ==
    \E r, q \in DOMAIN reqs :
        /\ reqs[r].failed
        /\ reqs[r].pc = "done"
        /\ reqs[r].nTokens > 0
        /\ reqs[q].pc = "done"
        /\ ~reqs[q].failed
        /\ reqs[q].ops # <<>>

\* C28: every chat request that creates a generation record eventually
\* sends exactly one 'complete' or 'error' event and closes the response
\* stream, and its generation record reaches COMPLETED or FAILED and never
\* stays IN_PROGRESS, also when a database write inside onComplete or
\* onError fails.  (Stated as claimed, for a request whose handler has run
\* to its end or has been ended by a rejected await: no step of the request
\* follows.)
C28_EveryGenerationEnds ==
    \A r \in DOMAIN reqs :
        reqs[r].pc \in {"done", "rejected"} =>
            /\ Cardinality(eventsOf(r, "complete") \cup eventsOf(r, "error")) = 1
            /\ reqs[r].closed
            /\ reqs[r].generation.status \in {"COMPLETED", "FAILED"}

\* what holds: a handler that ran to its end has done all of that, and a
\* request sends at most one of the two events, as its last event
EndsWhenNoWriteFails ==
    \A r \in DOMAIN reqs :
        /\ Cardinality(eventsOf(r, "complete") \cup eventsOf(r, "error")) <= 1
        /\ \A i \in eventsOf(r, "complete") \cup eventsOf(r, "error") :
               i = Len(reqs[r].events)
        /\ reqs[r].pc = "done" =>
               /\ Cardinality(eventsOf(r, "complete") \cup eventsOf(r, "error")) = 1
               /\ reqs[r].closed
               /\ reqs[r].generation.status \in {"COMPLETED", "FAILED"}

\* the FileVersion rows of the file at path
versionsOf(path) == {i \in 1..Len(versions) : versions[i].path = path}

\* a writer has backed up the file at path and not yet updated it
midUpdate(path) ==
    \/ \E r \in DOMAIN reqs :
          /\ reqs[r].pc = "fileUpdate"
          /\ reqs[r].filesWithActions[reqs[r].k].path = path
    \/ \E c \in DOMAIN edits :
          /\ edits[c].pc = "fileUpdate"
          /\ edits[c].path = path

\* no database call of a handler has rejected
noRejection == \A r \in DOMAIN reqs : reqs[r].pc # "rejected"

\* C29: under any interleaving of the persistence of chat generations and
\* the file POST and PUT routes on the same file, every update of an
\* existing file stores the superseded content in a FileVersion carrying the
\* version number it had and raises the file's version by exactly one: the
\* FileVersion rows of a file have pairwise distinct version numbers, all
\* below the file's current version, and no superseded content is lost.
\* (Stated as claimed, for runs in which every database call succeeds, the
\* numbers being compared when no writer is between its backup and its
\* update; the writers read the row, then write.)
C29_VersionsKeepEveryContent ==
    /\ [](\A path \in DOMAIN db :
            (noRejection /\ ~midUpdate(path)) =>
            /\ \A i, j \in versionsOf(path) :
                   versions[i].version = versions[j].version => i = j
            /\ \A i \in versionsOf(path) :
                   versions[i].version < db[path].version)
    /\ [][\A path \in DOMAIN db :
            db'[path] # db[path] =>
                /\ db'[path].version = db[path].version + 1
                /\ \E i \in 1..Len(versions') :
                       /\ versions'[i].path = path
                       /\ versions'[i].content = db[path].content
                       /\ versions'[i].version = db[path].version]_vars

\* what holds: a FileVersion row belongs to a stored file and carries a
\* version number and a content that findUnique returned for it
VersionsAsBuilt ==
    \A i \in 1..Len(versions) :
        /\ versions[i].path \in DOMAIN db
        /\ versions[i].version >= 1
        /\ versions[i].content # <<>>

\* every change of request r that has content has been created or updated
allPersisted(r) ==
    \A j \in 1..Len(reqs[r].filesWithActions) :
        reqs[r].filesWithActions[j].content # <<>> =>
            \E i \in 1..Len(reqs[r].ops) :
                /\ reqs[r].ops[i].k = j
                /\ reqs[r].ops[i].op \in {"create", "update"}

\* C30: the 'complete' event of a generation is sent only after, in this
\* order, every extracted file change with non-empty content has been
\* persisted, the generation record has been marked COMPLETED, the
\* assistant message has been stored and exactly one GENERATION usage
\* record has been written for that request; no token event is sent after
\* the 'complete' event.
C30_CompleteEventLast ==
    \A r \in DOMAIN reqs :
        LET record == [type |-> "GENERATION", request |-> r]
            stored == [role |-> "ASSISTANT", request |-> r] \in messages
            completed == reqs[r].generation.status = "COMPLETED"
        IN  /\ completed => allPersisted(r)
            /\ stored => completed
            /\ CopiesIn(record, usage) <= 1
            /\ BagIn(record, usage) => stored
            /\ eventsOf(r, "complete") # {} =>
                   /\ CopiesIn(record, usage) = 1
                   /\ eventsOf(r, "complete") = {Len(reqs[r].events)}
                   /\ reqs[r].closed

\* a request has sent its 'complete' event after a delta and after storing
\* a file
C30_Witness ==
    \E r \in DOMAIN reqs :
        /\ eventsOf(r, "complete") # {}
        /\ eventsOf(r, "token") # {}
        /\ reqs[r].ops # <<>>

====
